---- MODULE Spec2Model ----
(***************************************************************************)
(* Process and file-descriptor subsystem of the OS/161 shell project:      *)
(* the process table (kern/proc/proc.c), the process syscalls              *)
(* (kern/syscall/proc_syscalls.c, second revision, lines 431-709), the     *)
(* file syscalls (kern/syscall/file_syscalls.c, first revision, lines      *)
(* 1-521, the one that uses proc->fileTable as proc.c does) and execv      *)
(* (kern/syscall/exec.c lines 678-761 with kern/syscall/helpers.c).        *)
(*                                                                         *)
(* Memory is a set of blocks.  kmalloc takes the lowest free block and     *)
(* writes only the fields the code initialises; kfree of a struct proc     *)
(* marks the block free and leaves its contents where the code left them,  *)
(* so a table slot that outlives its process reads what the block holds    *)
(* now (stale fields, or the process that took the block over).            *)
(*                                                                         *)
(* Every mutex-protected critical section of the code that does not block  *)
(* inside is one atomic step; cv_wait ends a step (it releases the lock    *)
(* and sleeps).                                                            *)
(***************************************************************************)
EXTENDS Integers, Sequences, FiniteSets, TLC

\* ---------------------------------------------------------------- bounds
\* Sizes of the tables (PROC_MAX and OPEN_MAX come from kern/limits.h, which
\* is scaled down here) and of the kernel heap, per kind of object.
PROC_MAX == 4
OPEN_MAX == 5
MaxProc == 5
MaxOf == 15
MaxAs == 5
\* The largest exit code a process passes to _exit.
MaxCode == 1
\* System calls in one run, and how many allocations or creations fail in it.
MaxCalls == 5
MaxFaults == 1
\* System calls in one run of the smaller workloads (SpecWait, SpecFile,
\* SpecExec).
MaxWaitCalls == 4
MaxFileCalls == 3
MaxExecCalls == 4
\* The largest byte count of a read or write, and the size of a file opened
\* with O_APPEND.
MaxLen == 2
\* The most strings in an argument vector passed to execv.
MaxArgs == 2
\* The top of the user stack as as_define_stack sets it (scaled down; a
\* multiple of 8 as the real one).
USERSTACK == 64
\* Descriptors above 0 that the lock sequences range over.
MaxLockFds == 2
\* ARG_MAX of kern/limits.h, scaled down.
ARG_MAX == 16
\* The width in bits of off_t (64 in the code), and the system calls in one
\* run of the lseek workload (SpecSeek).
OffBits == 3
MaxSeekCalls == 2
\* System calls in one run of the workload that seeks, reads and writes
\* shared files (SpecSeekIo).
MaxSeekIoCalls == 3

NULL == 0

Pids == 1..PROC_MAX
Fds == 0..(OPEN_MAX - 1)
ProcBlk == 1..MaxProc
OfBlk == 1..MaxOf
AsBlk == 1..MaxAs

VARIABLES
    procs,          \* struct proc blocks: ProcBlk -> record
    processTable,   \* [proc : Pids -> ProcBlk or NULL, last_pid]
    ofs,            \* struct openfile blocks: OfBlk -> record
    aspaces,        \* struct addrspace blocks: AsBlk -> "free" | "live"
    cwdref,         \* reference count of the directory vnode every p_cwd names
    thr,            \* the thread of each process block: pc and locals
    panicked,       \* the kernel has panicked (KASSERT or fatal fault)
    last,           \* the system call that returned last: who, what, result
    calls,          \* system calls entered so far
    faults          \* allocations and creations that have failed so far

vars == <<procs, processTable, ofs, aspaces, cwdref, thr, panicked, last,
          calls, faults>>

\* The kernel data an operation reads and writes, as one value, so that the
\* calls a handler makes compose as the code composes them.
Kernel == [procs |-> procs, pt |-> processTable, ofs |-> ofs,
           aspaces |-> aspaces, cwdref |-> cwdref, panicked |-> panicked]

LowestOf(S) == CHOOSE x \in S : \A y \in S : x <= y

\* kmalloc: the free blocks of each kind.
FreeProc(k) == {b \in ProcBlk : k.procs[b].st = "free"}
FreeOf(k) == {f \in OfBlk : k.ofs[f].st = "free"}
FreeAs(k) == {a \in AsBlk : k.aspaces[a] = "free"}

\* ------------------------------------------------------- process table

next_pid(pid) == IF pid + 1 > PROC_MAX THEN 1 ELSE pid + 1

\* The scan of find_valid_pid from `pid` on: the first empty slot met before
\* the cursor comes back to last_pid, -1 when it comes back, -2 when the loop
\* has run more than a full cycle without ending (it never ends).
\* The scan with the loop test left out: it stops at an empty slot only.
RECURSIVE fvp_scan_no_stop(_, _, _)
fvp_scan_no_stop(pt, pid, n) ==
    IF n > PROC_MAX THEN -2
    ELSE IF pt.proc[pid] = NULL THEN pid
    ELSE fvp_scan_no_stop(pt, next_pid(pid), n + 1)

RECURSIVE fvp_scan(_, _, _)
fvp_scan(pt, pid, n) ==
    IF n > PROC_MAX THEN -2
    ELSE IF pid = pt.last_pid THEN -1
    ELSE IF pt.proc[pid] = NULL THEN pid
    ELSE fvp_scan(pt, next_pid(pid), n + 1)

find_valid_pid(pt) == fvp_scan(pt, next_pid(pt.last_pid), 0)

\* proc_search: the slot's pointer, NULL for a pid out of range.
proc_search(pt, pid) ==
    IF pid <= 0 \/ pid > PROC_MAX THEN NULL ELSE pt.proc[pid]

\* proc_remove: destroys the cv and the lock of WHATEVER the slot holds and
\* empties the slot; an empty slot is a NULL dereference (fatal fault).
proc_remove(k, pid) ==
    IF pid <= 0 \/ pid > PROC_MAX THEN k
    ELSE LET t == k.pt.proc[pid] IN
         IF t = NULL THEN [k EXCEPT !.panicked = TRUE]
         ELSE [k EXCEPT !.procs[t].sync = FALSE, !.pt.proc[pid] = NULL]

\* ------------------------------------------------------- open files

FreedOf == [st |-> "free", count |-> 0, offset |-> 0, mode |-> "O_RDONLY"]

\* A reference dropped with the object freed whatever count is left.
of_decref_frees(ofstate, f) == [ofstate EXCEPT ![f] = FreedOf]

\* One reference dropped under the object's lock: count--, and at zero
\* vfs_close, lock_destroy and kfree.
of_decref(ofstate, f) ==
    IF ofstate[f].count - 1 = 0
    THEN [ofstate EXCEPT ![f] = FreedOf]
    ELSE [ofstate EXCEPT ![f].count = @ - 1]

\* One reference added under the object's lock.
of_incref(ofstate, f) == [ofstate EXCEPT ![f].count = @ + 1]

\* The sweep emptying the slots without dropping the references.
destroy_sweep_nodecref(k, c, i) ==
    [k EXCEPT !.procs[c].fileTable = [fd \in Fds |-> NULL]]

\* The file-table sweep of proc_destroy, slot i upward.
RECURSIVE destroy_sweep(_, _, _)
destroy_sweep(k, c, i) ==
    IF i >= OPEN_MAX THEN k
    ELSE LET f == k.procs[c].fileTable[i] IN
         IF f = NULL THEN destroy_sweep(k, c, i + 1)
         ELSE destroy_sweep([k EXCEPT !.ofs = of_decref(@, f),
                                      !.procs[c].fileTable[i] = NULL], c, i + 1)

\* proc_destroy of a process other than the current one.
proc_destroy(k, c) ==
    LET k1 == proc_remove(k, k.procs[c].p_pid)
        k2 == IF k1.procs[c].p_cwd
              THEN [k1 EXCEPT !.cwdref = @ - 1, !.procs[c].p_cwd = FALSE]
              ELSE k1
        as == k2.procs[c].p_addrspace
        k3 == IF as # NULL
              THEN [k2 EXCEPT !.aspaces[as] = "free", !.procs[c].p_addrspace = NULL]
              ELSE k2
        k4 == destroy_sweep(k3, c, 0)
    IN  IF k1.panicked THEN k1
        ELSE IF k3.procs[c].p_numthreads # 0 THEN [k3 EXCEPT !.panicked = TRUE]
        ELSE [k4 EXCEPT !.procs[c].st = "free"]

\* ------------------------------------------------------- threads

Idle == [pc |-> "none", child |-> NULL, pid |-> 0, arg |-> 0, code |-> 0,
         slept |-> FALSE, of |-> NULL, len |-> 0, off |-> 0, raced |-> FALSE,
         options |-> 0]
InUser == [pc |-> "user", child |-> NULL, pid |-> 0, arg |-> 0, code |-> 0,
           slept |-> FALSE, of |-> NULL, len |-> 0, off |-> 0, raced |-> FALSE,
         options |-> 0]

NoRes == [who |-> NULL, op |-> "none", err |-> "OK", val |-> 0, aux |-> <<>>]
Result(b, op, err, val, aux) ==
    [who |-> b, op |-> op, err |-> err, val |-> val, aux |-> aux]

\* The call of thread b returns to user mode with result r.
Return(b, r) ==
    /\ thr' = [thr EXCEPT ![b] = InUser]
    /\ last' = r

Commit(k) ==
    /\ procs' = k.procs
    /\ processTable' = k.pt
    /\ ofs' = k.ofs
    /\ aspaces' = k.aspaces
    /\ cwdref' = k.cwdref
    /\ panicked' = k.panicked

\* A system call is entered: one more of the calls the run may make.
Enter == calls < MaxCalls /\ calls' = calls + 1

\* An allocation or a creation fails (f), one more of the failures the run
\* may have.
Inject(f) == /\ f => faults < MaxFaults
             /\ faults' = faults + (IF f THEN 1 ELSE 0)

CanRun(b, pc) == ~panicked /\ thr[b].pc = pc

\* ------------------------------------------------------- initial state
\* After boot (process_table_init) and the launch of the first user program
\* through proc_create_runprogram: pid 1, the three console objects at
\* descriptors 0-2, its address space, the boot directory as cwd.

ConsoleMode(fd) == IF fd = 0 THEN "O_RDONLY" ELSE "O_WRONLY"

FreshProc == [st |-> "free", p_pid |-> 0, parent_pid |-> 0, p_exited |-> FALSE,
              p_exitcode |-> 0, p_numthreads |-> 0, p_addrspace |-> NULL,
              p_cwd |-> FALSE, fileTable |-> [i \in Fds |-> NULL],
              sync |-> FALSE, waiters |-> {}, forked_by |-> NULL]

Init ==
    /\ procs = [b \in ProcBlk |->
                  IF b = 1
                  THEN [FreshProc EXCEPT !.st = "used", !.p_pid = 1,
                            !.parent_pid = -1, !.p_numthreads = 1,
                            !.p_addrspace = 1, !.p_cwd = TRUE,
                            !.fileTable = [i \in Fds |-> IF i < 3 THEN i + 1 ELSE NULL],
                            !.sync = TRUE]
                  ELSE FreshProc]
    /\ processTable = [proc |-> [p \in Pids |-> IF p = 1 THEN 1 ELSE NULL],
                       last_pid |-> 1]
    /\ ofs = [f \in OfBlk |->
                IF f <= 3
                THEN [st |-> "live", count |-> 1, offset |-> 0, mode |-> ConsoleMode(f - 1)]
                ELSE FreedOf]
    /\ aspaces = [a \in AsBlk |-> IF a = 1 THEN "live" ELSE "free"]
    /\ cwdref = 2
    /\ thr = [b \in ProcBlk |-> IF b = 1 THEN InUser ELSE Idle]
    /\ panicked = FALSE
    /\ last = NoRes
    /\ calls = 0
    /\ faults = 0

\* ------------------------------------------------------- fork

\* What a fork reports when the creation of the child failed: whether no
\* slot of the process table (k at the return) points to the object c that
\* was to be the child; c is NULL when there was none yet.
CreateFailed(k, c) ==
    [slot_clear |-> c = NULL \/ \A p \in Pids : k.pt.proc[p] # c]

\* proc_create up to and including find_valid_pid: the new block with the
\* fields proc_create initialises (the others keep what the block held), and
\* the pid chosen.  The table spinlock is released before the slot is filled.
\* History of sys_fork: forked_by names the block of the process whose
\* sys_fork set this process's parent_pid.  When kmalloc hands block c to a new
\* process, the processes the block's former owner forked have no forker left.
Disown(ps, c) ==
    [x \in ProcBlk |->
        IF ps[x].forked_by = c THEN [ps[x] EXCEPT !.forked_by = NULL] ELSE ps[x]]

ForkBegin(b) ==
    /\ CanRun(b, "user")
    /\ Enter
    /\ \E mem \in BOOLEAN :
         /\ Inject(~mem)
         /\ LET k == Kernel
                pid == find_valid_pid(k.pt)
                c == LowestOf(FreeProc(k))
            IN  IF ~mem \/ FreeProc(k) = {} \/ pid = -1
                THEN \* kmalloc or kstrdup fails, or no pid: proc_create returns NULL
                     /\ Return(b, Result(b, "fork", "ENPROC", 0,
                                         CreateFailed(k, NULL)))
                     /\ UNCHANGED <<procs, processTable>>
                ELSE IF pid = -2
                THEN /\ thr' = [thr EXCEPT ![b].pc = "hang"]
                     /\ UNCHANGED <<procs, processTable, last>>
                ELSE /\ procs' = [Disown(procs, c) EXCEPT
                                      ![c].st = "used", ![c].p_numthreads = 0,
                                      ![c].p_addrspace = NULL, ![c].p_cwd = FALSE,
                                      ![c].fileTable = [i \in Fds |-> NULL]]
                     /\ processTable' = [processTable EXCEPT !.last_pid = pid]
                     /\ thr' = [thr EXCEPT ![b].pc = "fork_add", ![b].child = c,
                                           ![b].pid = pid, ![c] = Idle]
                     /\ UNCHANGED last
    /\ UNCHANGED <<ofs, aspaces, cwdref, panicked>>

\* proc_add: the slot is filled first, then the fields are set and the cv
\* and the lock created (cvok: both were).
proc_add(k, pid, c, cvok) ==
    [k EXCEPT !.pt.proc[pid] = c,
              !.procs[c].p_exited = FALSE,
              !.procs[c].parent_pid = -1,
              !.procs[c].forked_by = NULL,
              !.procs[c].sync = cvok,
              !.procs[c].waiters = {}]

\* proc_add, and proc_create's test of what it returns: -1 when cv_create or
\* lock_create failed, and otherwise proc->p_pid, which nothing has written
\* yet (minus1: it reads as -1).  On -1 proc_create frees the block and
\* leaves the slot as proc_add set it.
ForkAdd(b) ==
    /\ CanRun(b, "fork_add")
    /\ UNCHANGED calls
    /\ \E cvok \in BOOLEAN, minus1 \in BOOLEAN :
         /\ Inject(~cvok \/ minus1)
         /\ LET c == thr[b].child
                pid == thr[b].pid
                k1 == proc_add(Kernel, pid, c, cvok)
            IN  IF ~cvok \/ minus1
                THEN /\ Commit([k1 EXCEPT !.procs[c].st = "free"])
                     /\ Return(b, Result(b, "fork", "ENPROC", 0,
                                         CreateFailed(k1, c)))
                ELSE /\ Commit(k1)
                     /\ thr' = [thr EXCEPT ![b].pc = "fork_init"]
                     /\ UNCHANGED last

\* start_console for descriptor fd of process c.
start_console(k, c, fd) ==
    LET f == LowestOf(FreeOf(k)) IN
    [k EXCEPT !.ofs[f] = [st |-> "live", count |-> 1, offset |-> 0,
                          mode |-> ConsoleMode(fd)],
              !.procs[c].fileTable[fd] = f]

\* The three start_console calls of proc_create_runprogram, from fd on; the
\* call for descriptor failAt fails (kmalloc, vfs_open or lock_create), as
\* does any call that finds no free block.  <<kernel, succeeded>>.
RECURSIVE start_consoles(_, _, _, _)
start_consoles(k, c, fd, failAt) ==
    IF fd = 3 THEN <<k, TRUE>>
    ELSE IF fd = failAt \/ FreeOf(k) = {} THEN <<k, FALSE>>
    ELSE start_consoles(start_console(k, c, fd), c, fd + 1, failAt)

\* The cwd is taken over from the current process with one more reference.
share_cwd(k, cur, c) ==
    IF k.procs[cur].p_cwd
    THEN [k EXCEPT !.cwdref = @ + 1, !.procs[c].p_cwd = TRUE]
    ELSE k

\* The loop without its count++: the pointers are copied, the counts stay.
fork_filetable_nocount(k, parent, c, i) ==
    [k EXCEPT !.procs[c].fileTable = k.procs[parent].fileTable]

\* The file-table loop of sys_fork, slot i upward: the child's slot gets the
\* parent's pointer (count++ under the object's lock) or NULL.
RECURSIVE fork_filetable(_, _, _, _)
fork_filetable(k, parent, c, i) ==
    IF i >= OPEN_MAX THEN k
    ELSE LET of == k.procs[parent].fileTable[i] IN
         IF of # NULL
         THEN fork_filetable([k EXCEPT !.ofs = of_incref(@, of),
                                       !.procs[c].fileTable[i] = of],
                             parent, c, i + 1)
         ELSE fork_filetable([k EXCEPT !.procs[c].fileTable[i] = NULL],
                             parent, c, i + 1)

\* What a successful fork reports: the two file tables after the file-table
\* loop, and per descriptor the count of the parent's object before the loop
\* (k0) and after it (k1).
Forked(k0, k1, parent, c) ==
    [parent_ft |-> k1.procs[parent].fileTable,
     child_ft |-> k1.procs[c].fileTable,
     cnt0 |-> [i \in Fds |-> IF k0.procs[parent].fileTable[i] = NULL THEN 0
                             ELSE k0.ofs[k0.procs[parent].fileTable[i]].count],
     cnt1 |-> [i \in Fds |-> IF k1.procs[parent].fileTable[i] = NULL THEN 0
                             ELSE k1.ofs[k1.procs[parent].fileTable[i]].count]]

\* What a fork that fails after proc_create_runprogram reports (k0 when the
\* child had just been put in the table, k1 at the return): whether the
\* child's file table had been filled, whether every open-file object live
\* at k0 is live with the same count, whether the parent's file table is the
\* same, whether slot pid of the process table is empty; and whether the
\* child c had no thread when proc_destroy was entered (kd).
ForkFailed(k0, kd, k1, parent, c, pid, populated) ==
    [populated |-> populated,
     unstarted |-> kd.procs[c].p_numthreads = 0,
     counts_same |-> \A f \in OfBlk :
                        k0.ofs[f].st = "live" =>
                            /\ k1.ofs[f].st = "live"
                            /\ k1.ofs[f].count = k0.ofs[f].count,
     parent_same |-> k1.procs[parent].fileTable = k0.procs[parent].fileTable,
     slot_empty |-> k1.pt.proc[pid] = NULL]

ForkOutcomes == {"console0", "console1", "console2", "as_copy", "trapframe",
                 "thread_fork", "ok"}

FailAt(out) == CASE out = "console0" -> 0 [] out = "console1" -> 1
                 [] out = "console2" -> 2 [] OTHER -> 3

\* The rest of sys_fork once the child is in the table: proc_create's
\* p_pid = pid, the consoles and the cwd of proc_create_runprogram, then
\* parent_pid, as_copy, the cwd again, the file table, the trapframe copy and
\* thread_fork.  `out` is the first step that fails.
ForkRest(b) ==
    /\ CanRun(b, "fork_init")
    /\ UNCHANGED calls
    /\ \E out \in ForkOutcomes :
         /\ Inject(out # "ok")
         /\ LET c == thr[b].child
                k0 == [Kernel EXCEPT !.procs[c].p_pid = thr[b].pid]
                cons == start_consoles(k0, c, 0, FailAt(out))
                k1 == share_cwd(cons[1], b, c)
                k2 == [k1 EXCEPT !.procs[c].parent_pid = k1.procs[b].p_pid,
                                 !.procs[c].forked_by = b]
                asfail == out = "as_copy" \/ FreeAs(k2) = {}
                as == LowestOf(FreeAs(k2))
                k3 == [k2 EXCEPT !.aspaces[as] = "live", !.procs[c].p_addrspace = as]
                k4 == share_cwd(k3, b, c)
                k5 == fork_filetable(k4, b, c, 0)
                k6 == [k5 EXCEPT !.procs[c].p_numthreads = @ + 1]
            IN  IF ~cons[2]
                THEN \* proc_create_runprogram returns NULL; the child stays as it is
                     /\ Commit(cons[1])
                     /\ Return(b, Result(b, "fork", "ENPROC", 0,
                                         CreateFailed(cons[1], c)))
                ELSE IF asfail
                THEN /\ Commit(proc_destroy(k2, c))
                     /\ Return(b, Result(b, "fork", "ENOMEM", 0,
                                         ForkFailed(Kernel, k2, proc_destroy(k2, c),
                                                    b, c, thr[b].pid, FALSE)))
                ELSE IF out \in {"trapframe", "thread_fork"}
                THEN /\ Commit(proc_destroy(k5, c))
                     /\ Return(b, Result(b, "fork", "ENOMEM", 0,
                                         ForkFailed(Kernel, k5, proc_destroy(k5, c),
                                                    b, c, thr[b].pid, TRUE)))
                ELSE /\ Commit(k6)
                     /\ thr' = [thr EXCEPT ![b] = InUser, ![c] = InUser]
                     /\ last' = Result(b, "fork", "OK", k6.procs[c].p_pid,
                                          Forked(k4, k5, b, c))

\* ------------------------------------------------------- _exit

\* _MKWAIT_EXIT of kern/wait.h (not among the sources): the exit code in the
\* bits above the two that say how the process ended, which are 0 for an exit.
MKWAIT_EXIT(x) == x * 4

\* A lock or cv that proc_remove has destroyed is freed memory: using it
\* either works on what the memory still holds or brings the kernel down.
SyncUse(c, works) == procs[c].sync \/ works

\* sys__exit, first half: proc_remthread(curthread).
ExitRemthread(b) ==
    /\ CanRun(b, "user")
    /\ Enter
    /\ UNCHANGED faults
    /\ \E code \in 0..MaxCode :
         /\ procs' = [procs EXCEPT ![b].p_numthreads = @ - 1]
         /\ thr' = [thr EXCEPT ![b].pc = "exit_signal", ![b].arg = code]
    /\ UNCHANGED <<processTable, ofs, aspaces, cwdref, panicked, last>>

\* cv_signal: one sleeper of the cv, if there is one, is made runnable; it
\* takes the lock again and goes round sys_waitpid's loop.
cv_signal(waiters, w) == waiters \ {w}

\* sys__exit, second half: under p_locklock the exit code and the flag are
\* stored and the cv is signalled; then thread_exit.
ExitSignal(b) ==
    /\ CanRun(b, "exit_signal")
    /\ UNCHANGED <<calls, faults>>
    /\ \E works \in BOOLEAN :
         IF ~SyncUse(b, works)
         THEN /\ panicked' = TRUE
              /\ UNCHANGED <<procs, thr>>
         ELSE /\ \E w \in procs[b].waiters \cup {NULL} :
                   /\ (w = NULL) = (procs[b].waiters = {})
                   /\ procs' = [procs EXCEPT
                                  ![b].p_exitcode = MKWAIT_EXIT(thr[b].arg),
                                  ![b].p_exited = TRUE,
                                  ![b].waiters = cv_signal(@, w)]
                   /\ thr' = [t \in ProcBlk |->
                                IF t = b
                                THEN [thr[b] EXCEPT !.pc = "dead",
                                        !.code = MKWAIT_EXIT(thr[b].arg)]
                                ELSE IF t = w THEN [thr[t] EXCEPT !.pc = "wait_lock"]
                                ELSE thr[t]]
              /\ UNCHANGED panicked
    /\ UNCHANGED <<processTable, ofs, aspaces, cwdref, last>>

\* ------------------------------------------------------- waitpid

WaitPids == 0..(PROC_MAX + 1)
WaitOptions == {0, 1}
StatusPtrs == {"null", "good", "bad"}

\* The checks with the one of options made last.
waitpid_check_options_last(k, cur, pid, options) ==
    IF pid <= 0 \/ pid > PROC_MAX THEN "ESRCH"
    ELSE IF proc_search(k.pt, pid) = NULL THEN "ESRCH"
    ELSE IF k.procs[proc_search(k.pt, pid)].parent_pid # k.procs[cur].p_pid THEN "ECHILD"
    ELSE IF options # 0 THEN "EINVAL"
    ELSE "OK"

\* The checks taking an empty slot for a process of another parent.
waitpid_check_empty_is_other(k, cur, pid, options) ==
    IF options # 0 THEN "EINVAL"
    ELSE IF pid <= 0 \/ pid > PROC_MAX THEN "ESRCH"
    ELSE IF proc_search(k.pt, pid) = NULL THEN "ECHILD"
    ELSE IF k.procs[proc_search(k.pt, pid)].parent_pid # k.procs[cur].p_pid THEN "ECHILD"
    ELSE "OK"

\* The checks taking a process of another parent for no process.
waitpid_check_other_is_none(k, cur, pid, options) ==
    IF options # 0 THEN "EINVAL"
    ELSE IF pid <= 0 \/ pid > PROC_MAX THEN "ESRCH"
    ELSE IF proc_search(k.pt, pid) = NULL THEN "ESRCH"
    ELSE IF k.procs[proc_search(k.pt, pid)].parent_pid # k.procs[cur].p_pid THEN "ESRCH"
    ELSE "OK"

\* The checks of sys_waitpid before it takes the child's lock: the error they
\* end with, or "OK".
waitpid_check(k, cur, pid, options) ==
    IF options # 0 THEN "EINVAL"
    ELSE IF pid <= 0 \/ pid > PROC_MAX THEN "ESRCH"
    ELSE IF proc_search(k.pt, pid) = NULL THEN "ESRCH"
    ELSE IF k.procs[proc_search(k.pt, pid)].parent_pid # k.procs[cur].p_pid THEN "ECHILD"
    ELSE "OK"

\* What a waitpid that one of the checks ends reports: where its pid lies
\* (at or below 0, above PROC_MAX, within the table), its options, whether
\* the caller has slept, what the slot of pid held at the call (nothing, a
\* child of the caller, another process), whether the process table and the
\* processes are as they were at the call (k0 then, k1 at the return), and
\* what the checks would say to waitpid(pid, status, 0) then and now.
WaitFailed(k0, k1, cur, pid, options) ==
    [range |-> IF pid <= 0 THEN "low" ELSE IF pid > PROC_MAX THEN "high" ELSE "in",
     options |-> options, slept |-> thr[cur].slept,
     slot |-> IF proc_search(k0.pt, pid) = NULL THEN "empty"
              ELSE IF k0.procs[proc_search(k0.pt, pid)].parent_pid = k0.procs[cur].p_pid
              THEN "child" ELSE "other",
     table_same |-> k1.pt = k0.pt,
     procs_same |-> k1.procs = k0.procs,
     before |-> waitpid_check(k0, cur, pid, 0),
     after |-> waitpid_check(k1, cur, pid, 0)]

WaitCall(b) ==
    /\ CanRun(b, "user")
    /\ Enter
    /\ UNCHANGED faults
    /\ \E pid \in WaitPids, options \in WaitOptions, status \in StatusPtrs :
         LET err == waitpid_check(Kernel, b, pid, options) IN
         IF err # "OK"
         THEN Return(b, Result(b, "waitpid", err, 0,
                               WaitFailed(Kernel, Kernel, b, pid, options)))
         ELSE /\ thr' = [thr EXCEPT ![b].pc = "wait_lock",
                                    ![b].child = proc_search(processTable, pid),
                                    ![b].pid = pid, ![b].arg = status,
                                    ![b].options = options]
              /\ UNCHANGED last
    /\ UNCHANGED <<procs, processTable, ofs, aspaces, cwdref, panicked>>

\* The loop never waiting.
wait_loop_cond_never(c) == FALSE

\* The loop waiting whatever the flag says.
wait_loop_cond_always(c) == TRUE

\* The condition of the loop around cv_wait.
wait_loop_cond(c) == ~procs[c].p_exited

\* lock_acquire(child->p_locklock) and the loop: either cv_wait (the lock is
\* released, the thread sleeps on the child's cv) or the exit code is read
\* and the lock released.
WaitLock(b) ==
    /\ CanRun(b, "wait_lock")
    /\ UNCHANGED <<calls, faults>>
    /\ \E works \in BOOLEAN :
         LET c == thr[b].child IN
         IF ~SyncUse(c, works)
         THEN /\ panicked' = TRUE
              /\ UNCHANGED <<procs, thr>>
         ELSE /\ IF wait_loop_cond(c)
                 THEN /\ procs' = [procs EXCEPT ![c].waiters = @ \cup {b}]
                      /\ thr' = [thr EXCEPT ![b].pc = "wait_cv", ![b].slept = TRUE]
                 ELSE /\ thr' = [thr EXCEPT ![b].pc = "wait_copy",
                                            ![b].code = procs[c].p_exitcode]
                      /\ UNCHANGED procs
              /\ UNCHANGED panicked
    /\ UNCHANGED <<processTable, ofs, aspaces, cwdref, last>>

\* What the call's result records of the process it reaped, as it was when
\* proc_destroy was entered.
Reaped(waiter, c, status, code) ==
    [status |-> IF status = "good" THEN code ELSE -1,
     p_pid |-> procs[c].p_pid, p_exited |-> procs[c].p_exited,
     dead |-> thr[c].pc = "dead", exitarg |-> thr[c].arg, st |-> procs[c].st,
     slept |-> thr[waiter].slept, options |-> thr[waiter].options]

\* copyout of the exit code, proc_destroy(child), *retval = pid.
WaitFinish(b) ==
    /\ CanRun(b, "wait_copy")
    /\ UNCHANGED <<calls, faults>>
    /\ LET c == thr[b].child
           k == proc_destroy(Kernel, c)
       IN  IF thr[b].arg = "bad"
           THEN /\ Return(b, Result(b, "waitpid", "EFAULT", 0, <<>>))
                /\ UNCHANGED <<procs, processTable, ofs, aspaces, cwdref, panicked>>
           ELSE /\ Commit(k)
                /\ IF k.panicked
                   THEN UNCHANGED <<thr, last>>
                   ELSE Return(b, Result(b, "waitpid", "OK", thr[b].pid,
                                         Reaped(b, c, thr[b].arg, thr[b].code)))

\* ------------------------------------------------------- open, close, dup2

FdArgs == (-1)..OPEN_MAX

\* The first step of sys_open that fails, in the order of the code.
OpenOutcomes == {"filename", "kmalloc_path", "copyinstr", "vfs_open",
                 "kmalloc_of", "lock_create", "VOP_STAT", "ok"}

\* flags & O_ACCMODE; 3 is none of the three modes.
AccModes == {"O_RDONLY", "O_WRONLY", "O_RDWR", "3"}

\* The descriptor sys_open picks: the first empty slot from 3 on, or -1.
open_scan(ft) ==
    IF \E i \in 3..(OPEN_MAX - 1) : ft[i] = NULL
    THEN LowestOf({i \in 3..(OPEN_MAX - 1) : ft[i] = NULL})
    ELSE -1

\* The error sys_open returns, or "OK".
open_result(k, cur, out, acc, append) ==
    IF out = "filename" THEN "EFAULT"
    ELSE IF out = "kmalloc_path" THEN "ENOMEM"
    ELSE IF out = "copyinstr" THEN "EFAULT"
    ELSE IF out = "vfs_open" THEN "ENOENT"
    ELSE IF open_scan(k.procs[cur].fileTable) = -1 THEN "EMFILE"
    ELSE IF out = "kmalloc_of" \/ FreeOf(k) = {} THEN "ENOMEM"
    ELSE IF out = "lock_create" THEN "ENOMEM"
    ELSE IF acc = "3" THEN "EINVAL"
    ELSE IF append /\ out = "VOP_STAT" THEN "EIO"
    ELSE "OK"

\* The path names a program passes to open: the empty string and a name.
Paths == {"", "file"}

\* What an open reports of its arguments and of how far it went.  For a call
\* whose pointer is good and in which no allocation fails: whether the path
\* is empty, whether flags & O_ACCMODE is none of the three modes, whether
\* O_APPEND comes with O_RDONLY.  For every call: whether vfs_open was
\* called, and whether the caller's file table is as it was (k0 at the call,
\* k1 at the return).  empty is the set of slots empty at the call.
Opened(k0, k1, cur, out, path, acc, append) ==
    LET plain == out \in {"vfs_open", "ok"} IN
    [empty |-> {i \in Fds : k0.procs[cur].fileTable[i] = NULL},
     empty_path |-> plain /\ path = "",
     bad_accmode |-> plain /\ acc = "3",
     append_read |-> plain /\ append /\ acc = "O_RDONLY",
     vfs_called |-> out \notin {"filename", "kmalloc_path", "copyinstr"},
     table_same |-> k1.procs[cur].fileTable = k0.procs[cur].fileTable]

\* sys_open.  Every failure path closes the vnode and frees what the call
\* allocated, so only the success path changes the kernel's data.
Open(b) ==
    /\ CanRun(b, "user")
    /\ Enter
    /\ \E out \in OpenOutcomes, acc \in AccModes, append \in BOOLEAN,
          size \in {0, MaxLen}, path \in Paths :
         /\ Inject(out \in {"kmalloc_path", "kmalloc_of", "lock_create", "VOP_STAT"})
         /\ LET k == Kernel
                err == open_result(k, b, out, acc, append)
                fd == open_scan(k.procs[b].fileTable)
                f == LowestOf(FreeOf(k))
                k1 == [k EXCEPT
                            !.ofs[f] = [st |-> "live", count |-> 1,
                                        offset |-> IF append THEN size ELSE 0,
                                        mode |-> acc],
                            !.procs[b].fileTable[fd] = f]
            IN  IF err # "OK"
                THEN /\ Return(b, Result(b, "open", err, 0,
                                         Opened(k, k, b, out, path, acc, append)))
                     /\ UNCHANGED <<procs, processTable, ofs, aspaces, cwdref, panicked>>
                ELSE /\ Commit(k1)
                     /\ Return(b, Result(b, "open", "OK", fd,
                                         Opened(k, k1, b, out, path, acc, append)))

\* The checks of sys_close: the error they end with, or "OK".
close_check(k, cur, fd) ==
    IF fd < 0 \/ fd >= OPEN_MAX THEN "EBADF"
    ELSE IF k.procs[cur].fileTable[fd] = NULL THEN "EBADF"
    ELSE "OK"

\* The reference dropped and the slot left as it is.
close_release_keeps_slot(k, cur, fd) ==
    [k EXCEPT !.ofs = of_decref(@, k.procs[cur].fileTable[fd])]

\* sys_close after its checks, under the object's lock: the slot is emptied
\* and the reference dropped.
close_release(k, cur, fd) ==
    [k EXCEPT !.ofs = of_decref(@, k.procs[cur].fileTable[fd]),
              !.procs[cur].fileTable[fd] = NULL]

\* What a close reports: where fd lies (below 0, at or above OPEN_MAX, within
\* the table), whether the slot was installed at the call (k0), whether it
\* is empty at the return (k1), whether the other slots of the caller, its
\* whole file table and the open-file objects are as they were, and what
\* the checks say to a close of fd now.
Closed(k0, k1, cur, fd) ==
    [range |-> IF fd < 0 THEN "low" ELSE IF fd >= OPEN_MAX THEN "high" ELSE "in",
     installed |-> fd \in Fds /\ k0.procs[cur].fileTable[fd] # NULL,
     emptied |-> fd \in Fds /\ k1.procs[cur].fileTable[fd] = NULL,
     others_same |-> \A i \in Fds \ {fd} :
                        k1.procs[cur].fileTable[i] = k0.procs[cur].fileTable[i],
     table_same |-> k1.procs[cur].fileTable = k0.procs[cur].fileTable,
     counts_same |-> k1.ofs = k0.ofs,
     dropped |-> fd \in Fds /\ k0.procs[cur].fileTable[fd] # NULL /\
                 LET f == k0.procs[cur].fileTable[fd] IN
                 /\ \A g \in OfBlk \ {f} : k1.ofs[g] = k0.ofs[g]
                 /\ IF k0.ofs[f].count = 1 THEN k1.ofs[f].st = "free"
                    ELSE k1.ofs[f].count = k0.ofs[f].count - 1,
     again |-> close_check(k1, cur, fd)]

\* sys_close.
Close(b) ==
    /\ CanRun(b, "user")
    /\ Enter
    /\ UNCHANGED faults
    /\ \E fd \in FdArgs :
         LET k == Kernel
             k1 == close_release(k, b, fd)
         IN  IF close_check(k, b, fd) # "OK"
             THEN /\ Return(b, Result(b, "close", "EBADF", 0, Closed(k, k, b, fd)))
                  /\ UNCHANGED <<procs, processTable, ofs, aspaces, cwdref, panicked>>
             ELSE /\ Commit(k1)
                  /\ Return(b, Result(b, "close", "OK", 0, Closed(k, k1, b, fd)))

\* dup2 that closes newfd and points it at the object without counting it.
dup2_install_nocount(k, cur, oldfd, newfd) ==
    LET old == k.procs[cur].fileTable[newfd]
        k1 == IF old # NULL
              THEN [k EXCEPT !.ofs = of_decref(@, old),
                             !.procs[cur].fileTable[newfd] = NULL]
              ELSE k
    IN  [k1 EXCEPT !.procs[cur].fileTable[newfd] = k1.procs[cur].fileTable[oldfd]]

\* The part of sys_dup2 after its checks: newfd is closed if it is open,
\* then it is pointed at oldfd's object and the object's count raised.
dup2_install(k, cur, oldfd, newfd) ==
    LET old == k.procs[cur].fileTable[newfd]
        k1 == IF old # NULL
              THEN [k EXCEPT !.ofs = of_decref(@, old),
                             !.procs[cur].fileTable[newfd] = NULL]
              ELSE k
        f == k1.procs[cur].fileTable[oldfd]
    IN  [k1 EXCEPT !.procs[cur].fileTable[newfd] = f,
                   !.ofs = of_incref(@, f)]

\* The checks of sys_dup2: the error they end with, or "OK".
dup2_check(k, cur, oldfd, newfd) ==
    IF oldfd < 0 \/ oldfd >= OPEN_MAX \/ newfd < 0 \/ newfd >= OPEN_MAX THEN "EBADF"
    ELSE IF k.procs[cur].fileTable[oldfd] = NULL THEN "EBADF"
    ELSE "OK"

\* dup2 without the case of equal descriptors.
dup2_apply_always(k, cur, oldfd, newfd) == dup2_install(k, cur, oldfd, newfd)

\* sys_dup2 after its checks: nothing for oldfd = newfd, else dup2_install.
dup2_apply(k, cur, oldfd, newfd) ==
    IF oldfd = newfd THEN k ELSE dup2_install(k, cur, oldfd, newfd)

\* What a dup2 reports (k0 at the call, k1 at the return): whether both
\* descriptors are within the table, whether oldfd was installed, whether
\* the two are equal, whether the caller's file table and every open-file
\* object are as they were; and for a call that passed the checks with f the
\* object of oldfd and g what newfd held: newfd, whether it now names f, whether
\* every other slot is as it was, whether the count of f went up by the slot
\* it gained (or is as it was when newfd named f already), whether g lost
\* exactly one reference and was freed if that was its last, and whether
\* every other object, and the offset of f, are as they were.
Dupped(k0, k1, cur, oldfd, newfd) ==
    LET ok == dup2_check(k0, cur, oldfd, newfd) = "OK"
        ft0 == k0.procs[cur].fileTable
        ft1 == k1.procs[cur].fileTable
        f == ft0[oldfd]
        g == ft0[newfd]
    IN  [in_range |-> oldfd \in Fds /\ newfd \in Fds,
         installed |-> oldfd \in Fds /\ ft0[oldfd] # NULL,
         same_fd |-> oldfd = newfd,
         newfd |-> IF ok THEN newfd ELSE -1,
         table_same |-> ft1 = ft0,
         objects_same |-> k1.ofs = k0.ofs,
         had_newfd |-> ok /\ g # NULL,
         shares |-> ok /\ ft1[newfd] = f /\ ft1[oldfd] = f,
         others_same |-> ok /\ \A i \in Fds \ {newfd} : ft1[i] = ft0[i],
         count_up |-> ok /\ k1.ofs[f].st = "live" /\
                      k1.ofs[f].count = k0.ofs[f].count + (IF g = f THEN 0 ELSE 1),
         offset_same |-> ok /\ k1.ofs[f].offset = k0.ofs[f].offset,
         prev_dropped |-> ok /\ (g # NULL /\ g # f) =>
                          IF k0.ofs[g].count = 1 THEN k1.ofs[g].st = "free"
                          ELSE /\ k1.ofs[g].st = "live"
                               /\ k1.ofs[g].count = k0.ofs[g].count - 1,
         rest_same |-> ok /\ \A h \in OfBlk \ {f, g} : k1.ofs[h] = k0.ofs[h]]

\* sys_dup2.
Dup2(b) ==
    /\ CanRun(b, "user")
    /\ Enter
    /\ UNCHANGED faults
    /\ \E oldfd \in FdArgs, newfd \in FdArgs :
         LET k == Kernel
             k1 == dup2_apply(k, b, oldfd, newfd)
         IN  IF dup2_check(k, b, oldfd, newfd) # "OK"
             THEN /\ Return(b, Result(b, "dup2", "EBADF", 0,
                                      Dupped(k, k, b, oldfd, newfd)))
                  /\ UNCHANGED <<procs, processTable, ofs, aspaces, cwdref, panicked>>
             ELSE /\ Commit(k1)
                  /\ Return(b, Result(b, "dup2", "OK", newfd,
                                      Dupped(k, k1, b, oldfd, newfd)))

\* ------------------------------------------------------- lseek

\* off_t: signed, OffBits wide.
OFF_MAX == 2 ^ (OffBits - 1) - 1
OFF_MIN == 0 - 2 ^ (OffBits - 1)
OffT == OFF_MIN..OFF_MAX

\* The whence argument; "other" is any value that is none of the three.
Whences == {"SEEK_SET", "SEEK_CUR", "SEEK_END", "other"}

\* -pos and a + b in off_t.  Where the result does not fit, the operation
\* overflows a signed integer and the code's behaviour is undefined: the
\* result is ub, any value of the type (the wrapped one among them).
Neg(pos, ub) == IF pos = OFF_MIN THEN ub ELSE 0 - pos
Add(a, c, ub) == IF a + c \in OffT THEN a + c ELSE ub

\* Whether an operation of the call overflows, so that ub matters.
Overflows(off, pos, whence, size) ==
    \/ pos = OFF_MIN
    \/ whence = "SEEK_CUR" /\ off + pos \notin OffT
    \/ whence = "SEEK_END" /\ size + pos \notin OffT

\* The switch with the last test (new_offset < 0) left out.
lseek_locked_no_last_test(off, pos, whence, stat_ok, size, ub) ==
    LET refuse(e) == [err |-> e, offset |-> off, val |-> 0, held |-> FALSE]
        accept(n) == [err |-> "OK", offset |-> n, val |-> n, held |-> FALSE]
    IN  IF whence = "SEEK_SET"
        THEN IF pos < 0 THEN refuse("EINVAL") ELSE accept(pos)
        ELSE IF whence = "SEEK_CUR"
        THEN IF pos < 0 /\ Neg(pos, ub) > off THEN refuse("EINVAL")
             ELSE accept(Add(off, pos, ub))
        ELSE IF whence = "SEEK_END"
        THEN IF ~stat_ok THEN refuse("EIO")
             ELSE IF pos < 0 /\ Neg(pos, ub) > size THEN refuse("EINVAL")
             ELSE accept(Add(size, pos, ub))
        ELSE refuse("EINVAL")

\* sys_lseek from lock_acquire on, for an object whose offset is off: the
\* error or "OK", the offset the object is left with, the value stored in
\* *retval, and whether the object's lock is still held at the return (every
\* return of the code is preceded by lock_release).  stat_ok and size are
\* what VOP_STAT gives.
lseek_locked(off, pos, whence, stat_ok, size, ub) ==
    LET refuse(e) == [err |-> e, offset |-> off, val |-> 0, held |-> FALSE]
        accept(n) == IF n < 0 THEN refuse("EINVAL")
                     ELSE [err |-> "OK", offset |-> n, val |-> n, held |-> FALSE]
    IN  IF whence = "SEEK_SET"
        THEN IF pos < 0 THEN refuse("EINVAL") ELSE accept(pos)
        ELSE IF whence = "SEEK_CUR"
        THEN IF pos < 0 /\ Neg(pos, ub) > off THEN refuse("EINVAL")
             ELSE accept(Add(off, pos, ub))
        ELSE IF whence = "SEEK_END"
        THEN IF ~stat_ok THEN refuse("EIO")
             ELSE IF pos < 0 /\ Neg(pos, ub) > size THEN refuse("EINVAL")
             ELSE accept(Add(size, pos, ub))
        ELSE refuse("EINVAL")

\* The sizes VOP_STAT reports.
StatSizes == {0, MaxLen, OFF_MAX}

\* What an lseek that reached the lock reports: the object f, whether whence
\* was none of the three, the position asked for (want: pos, off + pos,
\* size + pos as integers; 0 where there is none), whether it is negative,
\* whether an operation of the call overflowed, whether pos is the least or
\* the greatest off_t, the object's offset before and after, and the lock.
Seeked(f, r, off, pos, whence, stat_ok, size) ==
    [locked |-> TRUE, of |-> f,
     want |-> IF whence = "SEEK_SET" THEN pos
              ELSE IF whence = "SEEK_CUR" THEN off + pos
              ELSE IF whence = "SEEK_END" /\ stat_ok THEN size + pos
              ELSE 0,
     overflowed |-> Overflows(off, pos, whence, size),
     bad_whence |-> whence = "other",
     neg_target |-> \/ whence = "SEEK_SET" /\ pos < 0
                    \/ whence = "SEEK_CUR" /\ off + pos < 0
                    \/ whence = "SEEK_END" /\ stat_ok /\ size + pos < 0,
     extreme |-> pos \in {OFF_MIN, OFF_MAX},
     before |-> off, after |-> r.offset, held |-> r.held]

\* An lseek that returned before the lock.
NoSeek == [locked |-> FALSE, of |-> NULL, want |-> 0, overflowed |-> FALSE,
           bad_whence |-> FALSE, neg_target |-> FALSE,
           extreme |-> FALSE, before |-> 0, after |-> 0, held |-> FALSE]

\* sys_lseek.
Lseek(b) ==
    /\ CanRun(b, "user")
    /\ Enter
    /\ UNCHANGED faults
    /\ \E fd \in FdArgs, seekable \in BOOLEAN :
         LET k == Kernel IN
         IF close_check(k, b, fd) # "OK"
         THEN /\ Return(b, Result(b, "lseek", "EBADF", 0, NoSeek))
              /\ UNCHANGED <<procs, processTable, ofs, aspaces, cwdref, panicked>>
         ELSE IF ~seekable
         THEN /\ Return(b, Result(b, "lseek", "ESPIPE", 0, NoSeek))
              /\ UNCHANGED <<procs, processTable, ofs, aspaces, cwdref, panicked>>
         ELSE LET f == k.procs[b].fileTable[fd]
                  off == k.ofs[f].offset
              IN  \E pos \in OffT, whence \in Whences :
                  \E stat_ok \in (IF whence = "SEEK_END" THEN BOOLEAN ELSE {TRUE}),
                     size \in (IF whence = "SEEK_END" THEN StatSizes ELSE {0}) :
                  \E ub \in (IF Overflows(off, pos, whence, size) THEN OffT ELSE {0}) :
                     LET r == lseek_locked(off, pos, whence, stat_ok, size, ub) IN
                     /\ Commit([k EXCEPT !.ofs[f].offset = r.offset])
                     /\ Return(b, Result(b, "lseek", r.err, r.val,
                                         Seeked(f, r, off, pos, whence, stat_ok, size)))

\* ------------------------------------------------------- read, write

BufPtrs == {"null", "good", "bad"}
Lens == 1..MaxLen

\* What a read or write reports of the object it worked on: the offset
\* handed to the uio (start), the object's offset when the call took the
\* object's lock or, for a call that fails before that, when it returned
\* (before), and the object's offset when the call returned (after).
IoAux(f, start, before, after, raced, other) ==
    [of |-> f, start |-> start, before |-> before, after |-> after,
     raced |-> raced, other |-> other, slot |-> "ok", io |-> TRUE]

NoIo == IoAux(NULL, 0, 0, 0, FALSE, 0)

\* The checks of sys_write without the one of the mode.
write_check_any_mode(k, cur, fd, buf, mem) ==
    IF fd < 0 \/ fd >= OPEN_MAX THEN "EBADF"
    ELSE IF k.procs[cur].fileTable[fd] = NULL THEN "EBADF"
    ELSE IF buf = "null" THEN "EFAULT"
    ELSE IF ~mem THEN "ENOMEM"
    ELSE IF buf = "bad" THEN "EFAULT"
    ELSE "OK"

\* The checks of sys_write before the kernel buffer is filled: the error
\* they end with, or "OK".
write_check(k, cur, fd, buf, mem) ==
    IF fd < 0 \/ fd >= OPEN_MAX THEN "EBADF"
    ELSE IF k.procs[cur].fileTable[fd] = NULL THEN "EBADF"
    ELSE IF k.ofs[k.procs[cur].fileTable[fd]].mode = "O_RDONLY" THEN "EBADF"
    ELSE IF buf = "null" THEN "EFAULT"
    ELSE IF ~mem THEN "ENOMEM"
    ELSE IF buf = "bad" THEN "EFAULT"
    ELSE "OK"

\* The object a failed check leaves to report on, if the descriptor named one.
IoTarget(k, cur, fd) ==
    IF fd < 0 \/ fd >= OPEN_MAX THEN NULL ELSE k.procs[cur].fileTable[fd]

IoFailed(k, f) ==
    IF f = NULL THEN NoIo
    ELSE IoAux(f, 0, k.ofs[f].offset, k.ofs[f].offset, FALSE, 0)

\* What the descriptor of a read or write names: nothing within the table
\* ("range"), an empty slot ("closed"), an object opened in the mode that
\* excludes the operation ("mode": excluded is O_RDONLY for a write, O_WRONLY
\* for a read), or an object the operation may use ("ok").
SlotClass(k, cur, fd, excluded) ==
    IF fd < 0 \/ fd >= OPEN_MAX THEN "range"
    ELSE IF k.procs[cur].fileTable[fd] = NULL THEN "closed"
    ELSE IF k.ofs[k.procs[cur].fileTable[fd]].mode = excluded THEN "mode"
    ELSE "ok"

\* What a read or write that returns before lock_acquire reports: what its
\* descriptor named, and that VOP_READ or VOP_WRITE was not reached.
IoRefused(k, cur, fd, excluded) ==
    [IoFailed(k, IoTarget(k, cur, fd)) EXCEPT
        !.slot = SlotClass(k, cur, fd, excluded), !.io = FALSE]

\* sys_write up to lock_acquire: checks, kmalloc, copyin.
WriteCall(b) ==
    /\ CanRun(b, "user")
    /\ Enter
    /\ \E fd \in FdArgs, buf \in BufPtrs, len \in Lens, mem \in BOOLEAN :
         /\ Inject(~mem)
         /\ LET k == Kernel
                err == write_check(k, b, fd, buf, mem)
            IN  IF err # "OK"
                THEN Return(b, Result(b, "write", err, 0,
                                      IoRefused(k, b, fd, "O_RDONLY")))
                ELSE /\ thr' = [thr EXCEPT ![b].pc = "write_lock",
                                           ![b].of = k.procs[b].fileTable[fd],
                                           ![b].len = len]
                     /\ UNCHANGED last
    /\ UNCHANGED <<procs, processTable, ofs, aspaces, cwdref, panicked>>

\* The offset left where the write started.
write_offset_kept(off, n) == off

\* The object's offset after a write of n bytes that started at off:
\* kuio.uio_offset when VOP_WRITE returns.
write_offset(off, n) == off + n

\* Thread t is inside a write on object f, between its copyin and the lock.
\* Such a thread keeps note of where the last write on f ended meanwhile
\* (raced, off); a read on f in between makes it forget.
WritePending(t, f) == thr[t].pc = "write_lock" /\ thr[t].of = f

\* sys_write under the object's lock: uio_kinit at of->offset, VOP_WRITE,
\* and on success the new offset and the byte count.
WriteLocked(b) ==
    /\ CanRun(b, "write_lock")
    /\ UNCHANGED calls
    /\ \E err \in {"OK", "ENOSPC", "EIO"}, n \in 0..thr[b].len :
         /\ Inject(err # "OK")
         /\ LET f == thr[b].of
                start == ofs[f].offset
                end == write_offset(start, n)
            IN  IF err # "OK"
                THEN /\ Return(b, Result(b, "write", err, 0,
                                         IoAux(f, start, ofs[f].offset,
                                               ofs[f].offset, thr[b].raced,
                                               thr[b].off)))
                     /\ UNCHANGED ofs
                ELSE /\ ofs' = [ofs EXCEPT ![f].offset = end]
                     /\ thr' = [t \in ProcBlk |->
                                  IF t = b THEN InUser
                                  ELSE IF WritePending(t, f)
                                  THEN [thr[t] EXCEPT !.raced = TRUE, !.off = end]
                                  ELSE thr[t]]
                     /\ last' = Result(b, "write", "OK", n,
                                       IoAux(f, start, ofs[f].offset, end,
                                             thr[b].raced, thr[b].off))
    /\ UNCHANGED <<procs, processTable, aspaces, cwdref, panicked>>

\* The checks of sys_read, in the order of the code.
read_check(k, cur, fd, buf, mem) ==
    IF fd < 0 \/ fd >= OPEN_MAX THEN "EBADF"
    ELSE IF k.procs[cur].fileTable[fd] = NULL THEN "EBADF"
    ELSE IF k.ofs[k.procs[cur].fileTable[fd]].mode = "O_WRONLY" THEN "EBADF"
    ELSE IF buf = "null" THEN "EFAULT"
    ELSE IF ~mem THEN "ENOMEM"
    ELSE "OK"

\* sys_read up to lock_acquire: checks, kmalloc, and uio_kinit with the
\* object's offset as it is before the lock is taken.
ReadCall(b) ==
    /\ CanRun(b, "user")
    /\ Enter
    /\ \E fd \in FdArgs, buf \in BufPtrs, len \in Lens, mem \in BOOLEAN :
         /\ Inject(~mem)
         /\ LET k == Kernel
                err == read_check(k, b, fd, buf, mem)
                f == k.procs[b].fileTable[fd]
            IN  IF err # "OK"
                THEN Return(b, Result(b, "read", err, 0,
                                      IoRefused(k, b, fd, "O_WRONLY")))
                ELSE /\ thr' = [thr EXCEPT ![b].pc = "read_lock", ![b].of = f,
                                           ![b].len = len, ![b].arg = buf,
                                           ![b].off = k.ofs[f].offset]
                     /\ UNCHANGED last
    /\ UNCHANGED <<procs, processTable, ofs, aspaces, cwdref, panicked>>

\* sys_read under the object's lock: VOP_READ of n bytes from the uio's
\* offset, of->offset = kuio.uio_offset, then copyout.
ReadLocked(b) ==
    /\ CanRun(b, "read_lock")
    /\ UNCHANGED calls
    /\ \E err \in {"OK", "EIO"}, n \in 0..thr[b].len :
         /\ Inject(err # "OK")
         /\ LET f == thr[b].of
                end == thr[b].off + n
            IN  IF err # "OK"
                THEN /\ Return(b, Result(b, "read", err, 0,
                                         IoAux(f, thr[b].off, ofs[f].offset,
                                               ofs[f].offset, FALSE, 0)))
                     /\ UNCHANGED ofs
                ELSE /\ ofs' = [ofs EXCEPT ![f].offset = end]
                     /\ thr' = [t \in ProcBlk |->
                                  IF t = b THEN InUser
                                  ELSE IF WritePending(t, f)
                                  THEN [thr[t] EXCEPT !.raced = FALSE, !.off = 0]
                                  ELSE thr[t]]
                     /\ last' = Result(b, "read",
                                       IF thr[b].arg = "bad" THEN "EFAULT" ELSE "OK",
                                       IF thr[b].arg = "bad" THEN 0 ELSE n,
                                       IoAux(f, thr[b].off, ofs[f].offset, end,
                                             FALSE, 0))
    /\ UNCHANGED <<procs, processTable, aspaces, cwdref, panicked>>

\* ------------------------------------------------------- execv

\* The first step of sys_execv that fails, in the order of the code.
ExecOutcomes == {"null", "copy_program_name", "copy_arguments", "vfs_open",
                 "as_create", "load_elf", "as_define_stack",
                 "copy_args_to_stack", "ok"}

ExecErr(out) ==
    CASE out \in {"null", "copy_program_name", "copy_arguments"} -> "EFAULT"
      [] out = "vfs_open" -> "ENOENT"
      [] out = "load_elf" -> "ENOEXEC"
      [] out = "ok" -> "OK"
      [] OTHER -> "ENOMEM"

\* proc_setas that also empties the descriptor table of cur.
proc_setas_drops_files(k, cur, as) ==
    [k EXCEPT !.procs[cur].p_addrspace = as,
              !.procs[cur].fileTable = [fd \in DOMAIN @ |-> NULL]]

\* proc_setas for process cur: the kernel with as installed; the caller keeps
\* the address space that was installed before.
proc_setas(k, cur, as) == [k EXCEPT !.procs[cur].p_addrspace = as]

as_destroy(k, as) == [k EXCEPT !.aspaces[as] = "free"]

\* The new address space destroyed with the old one not put back.
restore_old_address_space_noswitch(k, cur, old_as, new_as) ==
    as_destroy(k, new_as)

\* restore_old_address_space: proc_setas(old_as), as_activate, as_destroy(new_as).
restore_old_address_space(k, cur, old_as, new_as) ==
    as_destroy(proc_setas(k, cur, old_as), new_as)

\* ---- the argument vector

\* User memory of the new address space: one byte per address below the top
\* of the stack; Unwritten is a byte nothing has stored yet.
Unwritten == -1
StackAddrs == 0..(USERSTACK - 1)
EmptyStack == [a \in StackAddrs |-> Unwritten]

\* The strings a program passes (bytes other than NUL), and the vectors of
\* at most MaxArgs of them.
ArgStrings == {<<>>, <<1>>, <<2, 1>>, <<1, 2, 1>>}
ShortVectors == UNION {[1..n -> ArgStrings] : n \in 0..MaxArgs}

\* Vectors of empty strings with one entry more than ARG_MAX / sizeof(char *)
\* and one more than ARG_MAX.
LongVectors == {[i \in 1..n |-> <<>>] : n \in {(ARG_MAX \div 4) + 1, ARG_MAX + 1}}

ArgVectors == ShortVectors \cup LongVectors

\* The bytes an argument vector takes on the user stack: every string with
\* its NUL, rounded up to a multiple of 4, and the array of argc + 1 pointers.
RECURSIVE StringBytes(_, _)
StringBytes(args, i) ==
    IF i = 0 THEN 0
    ELSE 4 * ((Len(args[i]) + 1 + 3) \div 4) + StringBytes(args, i - 1)

ArgFootprint(args) == StringBytes(args, Len(args)) + 4 * (Len(args) + 1)

\* The count loop of copy_arguments: E2BIG when argc has gone above ARG_MAX.
copy_arguments_count(args) == IF Len(args) > ARG_MAX THEN "E2BIG" ELSE "OK"

\* copy_arguments: the count of pointers before the NULL, and a kernel copy
\* of each string up to its NUL.
copy_arguments(args) ==
    [argc |-> Len(args), kernel_args |-> [i \in 1..Len(args) |-> args[i]]]

\* copyoutstr of string str, NUL included, to address dst.
copyoutstr(mem, str, dst) ==
    [a \in StackAddrs |->
        IF a >= dst /\ a < dst + Len(str) THEN str[a - dst + 1]
        ELSE IF a = dst + Len(str) THEN 0
        ELSE mem[a]]

\* The loop leaving each string where strlen + 1 puts it.
RECURSIVE copy_strings_unaligned(_, _, _)
copy_strings_unaligned(st, kernel_args, i) ==
    IF i = 0 THEN st
    ELSE LET sp1 == st.stackptr - (Len(kernel_args[i]) + 1)
         IN  copy_strings_unaligned(
                          [stackptr |-> sp1,
                           mem |-> copyoutstr(st.mem, kernel_args[i], sp1),
                           argv_ptrs |-> [st.argv_ptrs EXCEPT ![i] = sp1]],
                          kernel_args, i - 1)

\* The first loop of copy_args_to_stack, from argument i down to the first:
\* the stack pointer goes down by strlen + 1 and to a multiple of 4, the
\* string is copied there and its address kept in argv_ptrs[i].
RECURSIVE copy_strings(_, _, _)
copy_strings(st, kernel_args, i) ==
    IF i = 0 THEN st
    ELSE LET len == Len(kernel_args[i]) + 1
             sp1 == st.stackptr - len
             sp2 == sp1 - (sp1 % 4)
         IN  copy_strings([stackptr |-> sp2,
                           mem |-> copyoutstr(st.mem, kernel_args[i], sp2),
                           argv_ptrs |-> [st.argv_ptrs EXCEPT ![i] = sp2]],
                          kernel_args, i - 1)

\* A 32-bit word stored at address a, low byte first.
WordBytes(w, j) == (w \div (256 ^ j)) % 256

\* copyout of the words ws to address dst.
copyout_words(mem, ws, dst) ==
    [a \in StackAddrs |->
        IF a >= dst /\ a < dst + 4 * Len(ws)
        THEN WordBytes(ws[((a - dst) \div 4) + 1], (a - dst) % 4)
        ELSE mem[a]]

\* The pointer array left without its closing NULL.
argv_words_unterminated(argv_ptrs, argc) == [i \in 1..argc |-> argv_ptrs[i]]

\* The words copy_args_to_stack copies out as argv: the addresses of the
\* strings, then argv_ptrs[argc] = 0 (argc + 1 words).
argv_words(argv_ptrs, argc) ==
    [i \in 1..(argc + 1) |-> IF i = argc + 1 THEN 0 ELSE argv_ptrs[i]]

\* copy_args_to_stack: the strings, last one first, then the pointer array
\* at a multiple of 8; the stack pointer is left at the array.
copy_args_to_stack(kernel_args, argc, stackptr) ==
    LET st == copy_strings([stackptr |-> stackptr, mem |-> EmptyStack,
                            argv_ptrs |-> [i \in 1..(argc + 1) |-> Unwritten]],
                           kernel_args, argc)
        sp1 == st.stackptr - (argc + 1) * 4
        sp2 == sp1 - (sp1 % 8)
    IN  [stackptr |-> sp2,
         mem |-> copyout_words(st.mem, argv_words(st.argv_ptrs, argc), sp2)]

\* What the new program is entered with: enter_new_process(argc, stackptr,
\* NULL, stackptr, entrypoint), over the memory copy_args_to_stack wrote.
\* args is the vector the caller passed.
Entered(k, cur, old_as, new_as, args) ==
    LET ka == copy_arguments(args)
        st == copy_args_to_stack(ka.kernel_args, ka.argc, USERSTACK)
    IN  [old_as |-> old_as, new_as |-> new_as,
         cur_as |-> k.procs[cur].p_addrspace,
         old_live |-> k.aspaces[old_as] = "live",
         new_live |-> k.aspaces[new_as] = "live",
         args |-> args, argc |-> ka.argc, argv |-> st.stackptr,
         sp |-> st.stackptr, mem |-> st.mem]

\* What an execv reports: the address space of the process before the call,
\* the one as_create made (NULL if the call did not get that far), the one
\* installed when the call is over, and whether each is still allocated.
Execed(k, cur, old_as, new_as) ==
    [old_as |-> old_as, new_as |-> new_as,
     cur_as |-> k.procs[cur].p_addrspace,
     old_live |-> k.aspaces[old_as] = "live",
     new_live |-> IF new_as = NULL THEN FALSE ELSE k.aspaces[new_as] = "live"]

\* sys_execv.  The address space belongs to the calling process alone, so
\* the call is one step.
\* What an execv reports besides (k0 at the call, k1 at the return; out is
\* the step that ended it).  Of its arguments, for a call that got past the
\* pointer checks and copy_program_name: whether argv has more than
\* ARG_MAX / sizeof(char *) entries, and whether its footprint on the stack
\* is above ARG_MAX.  Whether copy_args_to_stack was reached.  Whether the
\* caller's pid, parent_pid and file table, the process table, and every
\* open-file object are as they were.
ExecInfo(k0, k1, cur, out, args) ==
    LET read == out \notin {"null", "copy_program_name"} IN
    [too_many |-> read /\ Len(args) > ARG_MAX \div 4,
     too_big |-> read /\ ArgFootprint(args) > ARG_MAX,
     copied_out |-> out \in {"copy_args_to_stack", "ok"},
     pid_same |-> /\ k1.procs[cur].p_pid = k0.procs[cur].p_pid
                  /\ k1.procs[cur].parent_pid = k0.procs[cur].parent_pid,
     slot_same |-> k1.pt = k0.pt,
     files_same |-> /\ k1.procs[cur].fileTable = k0.procs[cur].fileTable
                    /\ k1.ofs = k0.ofs]

Execv(b) ==
    /\ CanRun(b, "user")
    /\ Enter
    /\ \E out \in ExecOutcomes, args \in ArgVectors :
         /\ Inject(out \in {"as_create", "load_elf", "as_define_stack",
                            "copy_args_to_stack"})
         /\ LET k == Kernel
                old_as == k.procs[b].p_addrspace
                new_as == LowestOf(FreeAs(k))
                k1 == proc_setas([k EXCEPT !.aspaces[new_as] = "live"], b, new_as)
                k2 == restore_old_address_space(k1, b, old_as, new_as)
            IN  IF out \in {"null", "copy_program_name", "copy_arguments"}
                THEN /\ Commit(k)
                     /\ Return(b, Result(b, "execv", ExecErr(out), 0,
                                         Execed(k, b, old_as, NULL)
                                         @@ ExecInfo(k, k, b, out, args)))
                ELSE IF copy_arguments_count(args) # "OK"
                THEN /\ Commit(k)
                     /\ Return(b, Result(b, "execv", copy_arguments_count(args), 0,
                                         Execed(k, b, old_as, NULL)
                                         @@ ExecInfo(k, k, b, "copy_arguments", args)))
                ELSE IF out = "vfs_open"
                THEN /\ Commit(k)
                     /\ Return(b, Result(b, "execv", ExecErr(out), 0,
                                         Execed(k, b, old_as, NULL)
                                         @@ ExecInfo(k, k, b, out, args)))
                ELSE IF out = "as_create" \/ FreeAs(k) = {}
                THEN /\ Commit(k)
                     /\ Return(b, Result(b, "execv", "ENOMEM", 0,
                                         Execed(k, b, old_as, NULL)
                                         @@ ExecInfo(k, k, b, "as_create", args)))
                ELSE IF out # "ok"
                THEN /\ Commit(k2)
                     /\ Return(b, Result(b, "execv", ExecErr(out), 0,
                                         Execed(k2, b, old_as, new_as)
                                         @@ ExecInfo(k, k2, b, out, args)))
                ELSE \* enter_new_process: the thread is in user mode again
                     /\ Commit(k1)
                     /\ Return(b, Result(b, "execv", "OK", 0,
                                         Entered(k1, b, old_as, new_as, args)
                                         @@ ExecInfo(k, k1, b, out, args)))

\* ------------------------------------------------------- specifications

\* Processes that fork, exit and wait for each other.
NextProc ==
    \E b \in ProcBlk :
        \/ ForkBegin(b)
        \/ ForkAdd(b)
        \/ ForkRest(b)
        \/ ExitRemthread(b)
        \/ ExitSignal(b)
        \/ WaitCall(b)
        \/ WaitLock(b)
        \/ WaitFinish(b)

SpecProc == Init /\ [][NextProc]_vars

\* The same processes in runs of at most MaxWaitCalls system calls.
NextWait ==
    \E b \in ProcBlk :
        \/ calls < MaxWaitCalls /\ ForkBegin(b)
        \/ ForkAdd(b)
        \/ ForkRest(b)
        \/ calls < MaxWaitCalls /\ ExitRemthread(b)
        \/ ExitSignal(b)
        \/ calls < MaxWaitCalls /\ WaitCall(b)
        \/ WaitLock(b)
        \/ WaitFinish(b)

\* Processes that use files: every call on descriptors, with fork, _exit and
\* waitpid, in runs of at most MaxFileCalls system calls.
NextFile ==
    \E b \in ProcBlk :
        \/ calls < MaxFileCalls /\ ForkBegin(b)
        \/ ForkAdd(b)
        \/ ForkRest(b)
        \/ calls < MaxFileCalls /\ ExitRemthread(b)
        \/ ExitSignal(b)
        \/ calls < MaxFileCalls /\ WaitCall(b)
        \/ WaitLock(b)
        \/ WaitFinish(b)
        \/ calls < MaxFileCalls /\ Open(b)
        \/ calls < MaxFileCalls /\ Close(b)
        \/ calls < MaxFileCalls /\ Dup2(b)
        \/ calls < MaxFileCalls /\ WriteCall(b)
        \/ WriteLocked(b)
        \/ calls < MaxFileCalls /\ ReadCall(b)
        \/ ReadLocked(b)

SpecFile == Init /\ [][NextFile]_vars

\* A process that moves file offsets: open, close, dup2 and lseek, in runs
\* of at most MaxSeekCalls system calls.
NextSeek ==
    \E b \in ProcBlk :
        \/ calls < MaxSeekCalls /\ Open(b)
        \/ calls < MaxSeekCalls /\ Close(b)
        \/ calls < MaxSeekCalls /\ Dup2(b)
        \/ calls < MaxSeekCalls /\ Lseek(b)

SpecSeek == Init /\ [][NextSeek]_vars

\* Processes that share open files and seek, read and write them: the first
\* call of a run is a fork, the calls after it are lseek, read and write by
\* the parent and the child, in runs of at most MaxSeekIoCalls system calls.
NextSeekIo ==
    \E b \in ProcBlk :
        \/ calls = 0 /\ ForkBegin(b)
        \/ ForkAdd(b)
        \/ ForkRest(b)
        \/ calls > 0 /\ calls < MaxSeekIoCalls /\ Lseek(b)
        \/ calls > 0 /\ calls < MaxSeekIoCalls /\ WriteCall(b)
        \/ WriteLocked(b)
        \/ calls > 0 /\ calls < MaxSeekIoCalls /\ ReadCall(b)
        \/ ReadLocked(b)

SpecSeekIo == Init /\ [][NextSeekIo]_vars

\* Processes that replace their program: fork, execv, _exit and waitpid, in
\* runs of at most MaxExecCalls system calls.
NextExec ==
    \E b \in ProcBlk :
        \/ calls < MaxExecCalls /\ ForkBegin(b)
        \/ ForkAdd(b)
        \/ ForkRest(b)
        \/ calls < MaxExecCalls /\ ExitRemthread(b)
        \/ ExitSignal(b)
        \/ calls < MaxExecCalls /\ WaitCall(b)
        \/ WaitLock(b)
        \/ WaitFinish(b)
        \/ calls < MaxExecCalls /\ Execv(b)

SpecExec == Init /\ [][NextExec]_vars

SpecWait == Init /\ [][NextWait]_vars

\* The scheduler is fair to every runnable kernel thread: a thread inside
\* sys_waitpid or sys__exit that can take its next step takes it.
FairWait ==
    \A b \in ProcBlk : /\ WF_vars(ExitSignal(b))
                       /\ WF_vars(WaitLock(b))
                       /\ WF_vars(WaitFinish(b))

SpecWaitFair == SpecWait /\ FairWait

\* ------------------------------------------------------- properties

\* A process object that has run as a process and has not been reaped:
\* running, or exited and not yet waited for.
Live(b) == procs[b].st = "used" /\ thr[b].pc # "none"

\* C2: no two live process objects have the same pid, and every live
\* process's pid lies in 1..PROC_MAX, whatever the interleaving of the
\* creations between find_valid_pid and proc_add.
C2_PidsUnique ==
    /\ \A a \in ProcBlk : Live(a) => procs[a].p_pid \in 1..PROC_MAX
    /\ \A a, b \in ProcBlk :
          Live(a) /\ Live(b) /\ a # b => procs[a].p_pid # procs[b].p_pid


\* C3: a waitpid that returns success has reaped a process that had run
\* _exit; it returns that process's pid, and what it wrote through a valid
\* status pointer is _MKWAIT_EXIT of the code that process passed to _exit.
C3_WaitpidAfterExit ==
    (last.op = "waitpid" /\ last.err = "OK") =>
        /\ last.aux.p_exited
        /\ last.aux.dead
        /\ last.val = last.aux.p_pid
        /\ last.aux.status # -1 => last.aux.status = MKWAIT_EXIT(last.aux.exitarg)


InWaitpid(b) == thr[b].pc \in {"wait_lock", "wait_cv", "wait_copy"}

\* C4: a waitpid whose child has exited returns, whether the child exited
\* before the call or while the caller slept on the child's cv; and a waiter
\* that cv_signal wakes finds p_exited set and, in p_exitcode, the status the
\* exiting thread stored.
C4_WaitpidReturns ==
    /\ \A b \in ProcBlk :
          (/\ InWaitpid(b)
           /\ procs[thr[b].child].st = "used"
           /\ thr[thr[b].child].pc = "dead") ~> ~InWaitpid(b)
    /\ [][\A b \in ProcBlk :
            (thr[b].pc = "wait_cv" /\ thr'[b].pc = "wait_lock") =>
                /\ procs'[thr[b].child].p_exited
                /\ thr'[thr[b].child].pc = "dead"
                /\ procs'[thr[b].child].p_exitcode = thr'[thr[b].child].code]_vars

\* A waitpid that slept on the child's cv has returned success.
C4_Witness ==
    /\ last.op = "waitpid" /\ last.err = "OK"
    /\ last.aux.slept


\* No system call is in progress.
Quiescent == \A b \in ProcBlk : thr[b].pc \in {"none", "user", "dead"}

\* The file-table slots, over all process objects, that point to object f.
SlotsOf(f) ==
    {<<b, i>> \in ProcBlk \X Fds : procs[b].st = "used" /\ procs[b].fileTable[i] = f}

\* C1: at quiescence the count of every live open-file object equals the
\* number of file-table slots, over all processes, that point to it.
C1_CountIsSlots ==
    Quiescent =>
        \A f \in OfBlk : ofs[f].st = "live" => ofs[f].count = Cardinality(SlotsOf(f))

\* C5 as stated: after a successful fork the child's slot i holds the
\* parent's object for every installed i, that object's count is exactly one
\* higher than before the file table was copied, and empty slots stay empty.
C5_CountOneHigher ==
    (last.op = "fork" /\ last.err = "OK") =>
        \A i \in Fds :
            IF last.aux.parent_ft[i] = NULL
            THEN last.aux.child_ft[i] = NULL
            ELSE /\ last.aux.child_ft[i] = last.aux.parent_ft[i]
                 /\ last.aux.cnt1[i] = last.aux.cnt0[i] + 1

\* The descriptors of a file table that hold what descriptor i holds.
SameObject(ft, i) == {j \in Fds : ft[j] = ft[i]}

\* C5, amended: the object's count rises by the number of the parent's
\* descriptors that hold it (one for each slot the child gets), which is one
\* only when a single descriptor of the parent holds the object.
C5_CountPerSlot ==
    (last.op = "fork" /\ last.err = "OK") =>
        \A i \in Fds :
            IF last.aux.parent_ft[i] = NULL
            THEN last.aux.child_ft[i] = NULL
            ELSE /\ last.aux.child_ft[i] = last.aux.parent_ft[i]
                 /\ last.aux.cnt1[i] = last.aux.cnt0[i]
                        + Cardinality(SameObject(last.aux.parent_ft, i))

\* A fork has succeeded for a parent with an empty slot and two descriptors
\* on one object.
C5_Witness ==
    /\ last.op = "fork" /\ last.err = "OK"
    /\ \E i \in Fds : last.aux.parent_ft[i] = NULL
    /\ \E i, j \in Fds : /\ i # j
                          /\ last.aux.parent_ft[i] # NULL
                          /\ last.aux.parent_ft[i] = last.aux.parent_ft[j]

\* C6: a write that succeeds works at the object's offset as it is under the
\* lock and moves it by the bytes written; when another write on the same
\* object finished while this one was between its copyin and the lock, this
\* one starts where that one ended: the two ranges are adjacent.
C6_WritesSerialized ==
    (last.op = "write" /\ last.err = "OK") =>
        /\ last.aux.start = last.aux.before
        /\ last.aux.after = last.aux.start + last.val
        /\ last.aux.raced => last.aux.start = last.aux.other

\* A write succeeded after a concurrent write on the same object, each of
\* at least one byte.
C6_Witness ==
    /\ last.op = "write" /\ last.err = "OK"
    /\ last.aux.raced
    /\ last.val > 0
    /\ last.aux.start > 0

\* C7: a read or write on an installed descriptor that returns an error
\* leaves the object's offset as it was, and one that succeeds has moved it
\* by the byte count it returns.
C7_OffsetMoves ==
    (last.op \in {"read", "write"} /\ last.aux.of # NULL) =>
        IF last.err = "OK"
        THEN last.aux.after = last.aux.before + last.val
        ELSE last.aux.after = last.aux.before

\* C8: a successful open returns the lowest descriptor of 0..OPEN_MAX-1 that
\* was empty when it was called.
C8_LowestDescriptor ==
    (last.op = "open" /\ last.err = "OK") =>
        /\ last.val \in last.aux.empty
        /\ \A i \in last.aux.empty : last.val <= i


\* C9: an execv that fails leaves the process with the address space it had
\* before the call, that one still allocated, and the one the call created,
\* if it created one, destroyed.
C9_FailedExecvRestores ==
    (last.op = "execv" /\ last.err # "OK") =>
        /\ last.aux.cur_as = last.aux.old_as
        /\ last.aux.old_live
        /\ ~last.aux.new_live

\* An execv has failed after it switched to the address space it created.
C9_Witness ==
    /\ last.op = "execv" /\ last.err # "OK"
    /\ last.aux.new_as # NULL

\* C10: after a successful execv the process runs in the new address space
\* and the old one is no longer allocated.
C10_OldDestroyed ==
    (last.op = "execv" /\ last.err = "OK") =>
        /\ last.aux.cur_as = last.aux.new_as
        /\ last.aux.new_live
        /\ ~last.aux.old_live


\* The word at address a of memory mem, low byte first.
WordAt(mem, a) ==
    mem[a] + 256 * mem[a + 1] + 65536 * mem[a + 2] + 16777216 * mem[a + 3]

\* The string at address a of memory mem: the bytes up to the first NUL.
RECURSIVE StringAt(_, _)
StringAt(mem, a) ==
    IF a \notin StackAddrs THEN <<Unwritten>>
    ELSE IF mem[a] = 0 THEN <<>>
    ELSE <<mem[a]>> \o StringAt(mem, a + 1)

\* C11: the new program is entered with argc = n, argv[i] the address of a
\* NUL-terminated copy of the i-th string passed, in order, on the new stack,
\* and argv[n] the null pointer.
C11_ArgvOnStack ==
    (last.op = "execv" /\ last.err = "OK") =>
        LET n == Len(last.aux.args) IN
        /\ last.aux.argc = n
        /\ \A i \in 1..n :
              /\ WordAt(last.aux.mem, last.aux.argv + 4 * (i - 1)) \in StackAddrs
              /\ StringAt(last.aux.mem,
                          WordAt(last.aux.mem, last.aux.argv + 4 * (i - 1)))
                    = last.aux.args[i]
        /\ WordAt(last.aux.mem, last.aux.argv + 4 * n) = 0

\* A program was entered with the largest vector, of strings that differ.
C11_Witness ==
    /\ last.op = "execv" /\ last.err = "OK"
    /\ Len(last.aux.args) = MaxArgs
    /\ last.aux.args[1] # last.aux.args[MaxArgs]
    /\ last.aux.args[1] # <<>>

\* C12: _exit releases every descriptor, the cwd reference and the address
\* space of the process before it sets p_exited: a process whose p_exited is
\* true has an empty file table, no cwd reference and no address space.
C12_ExitedReleased ==
    \A b \in ProcBlk :
        (procs[b].st = "used" /\ procs[b].p_exited) =>
            /\ \A i \in Fds : procs[b].fileTable[i] = NULL
            /\ ~procs[b].p_cwd
            /\ procs[b].p_addrspace = NULL

\* The errors the checks of sys_waitpid end a call with.
WaitCheckErrs == {"EINVAL", "ESRCH", "ECHILD"}

\* A waitpid that a check ended.
WaitRefused == last.op = "waitpid" /\ last.err \in WaitCheckErrs

Callers == {b \in ProcBlk : procs[b].st = "used" /\ thr[b].pc = "user"}

\* C14: waitpid with options 0 and a pid at or below 0, above PROC_MAX, or
\* whose slot is empty returns ESRCH: the checks say so to every caller, no
\* such call is waiting, and the call that was refused did not sleep and left
\* the process table as it was.
C14_NoSuchProcess ==
    /\ \A b \in Callers : \A pid \in WaitPids :
          proc_search(processTable, pid) = NULL =>
              waitpid_check(Kernel, b, pid, 0) = "ESRCH"
    /\ \A b \in ProcBlk :
          thr[b].pc = "wait_lock" => thr[b].pid \in Pids /\ thr[b].child # NULL
    /\ (WaitRefused /\ last.aux.options = 0 /\ last.aux.slot = "empty") =>
          /\ last.err = "ESRCH"
          /\ ~last.aux.slept
          /\ last.aux.table_same /\ last.aux.procs_same

\* waitpid with options 0 was refused for a pid within the table whose slot
\* was empty.
C14_Witness ==
    /\ WaitRefused /\ last.aux.options = 0
    /\ last.aux.slot = "empty" /\ last.aux.range = "in"

\* C15: waitpid with options 0 on a process in the table whose parent_pid is
\* not the caller's pid returns ECHILD: the checks say so to every caller,
\* and the call that was refused did not sleep and left the table and every
\* process (the target's p_exited and p_exitcode included) as they were.
C15_NotAChild ==
    /\ \A b \in Callers : \A pid \in Pids :
          (/\ processTable.proc[pid] # NULL
           /\ procs[processTable.proc[pid]].parent_pid # procs[b].p_pid) =>
              waitpid_check(Kernel, b, pid, 0) = "ECHILD"
    /\ (WaitRefused /\ last.aux.options = 0 /\ last.aux.slot = "other") =>
          /\ last.err = "ECHILD"
          /\ ~last.aux.slept
          /\ last.aux.table_same /\ last.aux.procs_same
          /\ last.aux.after = "ECHILD"

\* waitpid with options 0 was refused for a process of another parent.
C15_Witness ==
    /\ WaitRefused /\ last.aux.options = 0
    /\ last.aux.slot = "other" /\ last.err = "ECHILD"

\* C16: when a waitpid has reaped a child (the step from the copyout to the
\* return of success), the slot of the pid it was called with is empty, so
\* the checks answer ESRCH to a second waitpid on that pid by the same parent.
C16_SecondWaitNoSuch ==
    [][\A b \in ProcBlk :
         (thr[b].pc = "wait_copy" /\ thr'[b].pc = "user" /\ last'.err = "OK") =>
             /\ proc_search(processTable', thr[b].pid) = NULL
             /\ waitpid_check(Kernel', b, thr[b].pid, 0) = "ESRCH"]_vars

\* C17: close of an installed descriptor returns 0 and empties that slot and
\* no other, dropping one reference of its object; a close of the same
\* descriptor right after it gets EBADF; and a close that finds the slot
\* empty, or a descriptor outside 0..OPEN_MAX-1, returns EBADF and leaves the
\* file table and every open-file object as they were.
C17_CloseOnce ==
    last.op = "close" =>
        /\ last.aux.installed =>
              /\ last.err = "OK"
              /\ last.aux.emptied /\ last.aux.others_same /\ last.aux.dropped
              /\ last.aux.again = "EBADF"
        /\ ~last.aux.installed =>
              /\ last.err = "EBADF"
              /\ last.aux.table_same /\ last.aux.counts_same

\* A close succeeded on a descriptor whose object another slot shares.
C17_Witness ==
    /\ last.op = "close" /\ last.err = "OK"
    /\ last.aux.installed
    /\ \E f \in OfBlk : ofs[f].st = "live" /\ SlotsOf(f) # {}
                          /\ \A i \in Fds : procs[last.who].fileTable[i] # f

\* C18: an open whose path is empty, whose flags & O_ACCMODE is none of the
\* three modes, or whose flags have O_APPEND with O_RDONLY returns EINVAL
\* without having called vfs_open, and leaves the file table as it was.
C18_OpenRejects ==
    (last.op = "open" /\
     (last.aux.empty_path \/ last.aux.bad_accmode \/ last.aux.append_read)) =>
        /\ last.err = "EINVAL"
        /\ ~last.aux.vfs_called
        /\ last.aux.table_same

\* C19: a read whose descriptor is out of range, not installed or names an
\* object opened O_WRONLY, and a write whose descriptor is out of range, not
\* installed or names an object opened O_RDONLY, return EBADF: the checks
\* say so to every caller whatever the buffer, and the call that was refused
\* reached neither VOP_READ nor VOP_WRITE and left the object's offset as it
\* was.
C19_BadDescriptor ==
    /\ \A b \in Callers : \A fd \in FdArgs, buf \in BufPtrs, mem \in BOOLEAN :
          /\ SlotClass(Kernel, b, fd, "O_WRONLY") # "ok" =>
                read_check(Kernel, b, fd, buf, mem) = "EBADF"
          /\ SlotClass(Kernel, b, fd, "O_RDONLY") # "ok" =>
                write_check(Kernel, b, fd, buf, mem) = "EBADF"
    /\ (last.op \in {"read", "write"} /\ last.aux.slot # "ok") =>
          /\ last.err = "EBADF"
          /\ ~last.aux.io
          /\ last.aux.after = last.aux.before

\* A write was refused because its descriptor names an object opened
\* O_RDONLY.
C19_Witness ==
    /\ last.op = "write" /\ last.err = "EBADF"
    /\ last.aux.slot = "mode"

\* C20: for every pos of off_t and every whence, lseek leaves no object with
\* a negative offset; and an lseek that asks for a negative position, or
\* whose whence is none of the three, returns EINVAL with the object's lock
\* released and its offset as it was.
C20_NoNegativeOffset ==
    /\ \A f \in OfBlk : ofs[f].st = "live" => ofs[f].offset \in 0..OFF_MAX
    /\ (last.op = "lseek" /\ last.aux.locked) =>
          /\ ~last.aux.held
          /\ last.aux.after >= 0
          /\ last.err # "OK" => last.aux.after = last.aux.before
          /\ (last.aux.neg_target \/ last.aux.bad_whence) => last.err = "EINVAL"

\* An lseek with the least off_t as pos, on an object whose offset was not
\* 0, asked for a negative position.
C20_Witness ==
    /\ last.op = "lseek" /\ last.aux.locked
    /\ last.aux.extreme /\ last.aux.neg_target
    /\ last.aux.before > 0

\* C21: the read or write that completes next after a successful lseek, on
\* the object the lseek moved, starts at the offset the lseek returned.
C21_SeekThenIo ==
    [][\A b \in ProcBlk :
         (/\ last.op = "lseek" /\ last.err = "OK"
          /\ thr[b].pc \in {"read_lock", "write_lock"}
          /\ thr[b].of = last.aux.of
          /\ thr'[b].pc = "user"
          /\ last'.op \in {"read", "write"} /\ last'.who = b) =>
             last'.aux.start = last.val]_vars

\* C22: dup2(a, a) on an installed descriptor a returns a and leaves the
\* caller's file table and every open-file object (count and offset) as they
\* were, so that repeating it changes nothing either.
C22_Dup2Same ==
    (last.op = "dup2" /\ last.aux.same_fd /\ last.aux.installed) =>
        /\ last.err = "OK"
        /\ last.val = last.aux.newfd
        /\ last.aux.table_same /\ last.aux.objects_same

\* dup2(a, a) returned on a descriptor of an object that two processes
\* share.
C22_Witness ==
    /\ last.op = "dup2" /\ last.err = "OK" /\ last.aux.same_fd
    /\ procs[last.who].st = "used"
    /\ procs[last.who].fileTable[last.val] # NULL
    /\ ofs[procs[last.who].fileTable[last.val]].count > 1

\* C23: after a successful dup2(oldfd, newfd) with oldfd # newfd, newfd names
\* the object of oldfd, whose count has gone up by the slot it gained and
\* whose offset is as it was; the object newfd held before has lost exactly
\* one reference and is freed if that was its last; every other slot and
\* object is as it was; and the call returns newfd.  A dup2 with a
\* descriptor out of range or with oldfd not installed returns EBADF and
\* changes nothing.
C23_Dup2Installs ==
    last.op = "dup2" =>
        /\ (last.aux.in_range /\ last.aux.installed /\ ~last.aux.same_fd) =>
              /\ last.err = "OK"
              /\ last.val = last.aux.newfd
              /\ last.aux.shares /\ last.aux.others_same
              /\ last.aux.count_up /\ last.aux.offset_same
              /\ last.aux.prev_dropped /\ last.aux.rest_same
        /\ (~last.aux.in_range \/ ~last.aux.installed) =>
              /\ last.err = "EBADF"
              /\ last.aux.table_same /\ last.aux.objects_same

\* A dup2 onto a descriptor that was installed succeeded.
C23_Witness ==
    /\ last.op = "dup2" /\ last.err = "OK"
    /\ ~last.aux.same_fd /\ last.aux.had_newfd

\* C24: an execv whose argv has more than ARG_MAX / sizeof(char *) entries,
\* or whose footprint on the user stack is above ARG_MAX, returns E2BIG
\* before an address space is created and before anything is copied out to a
\* user stack.
C24_ArgsTooLarge ==
    (last.op = "execv" /\ (last.aux.too_many \/ last.aux.too_big)) =>
        /\ last.err = "E2BIG"
        /\ last.aux.new_as = NULL
        /\ ~last.aux.copied_out

\* C25: an execv, whether it succeeds or fails, leaves the caller's pid and
\* parent_pid, the process table, the caller's file table, and the reference
\* count and offset of every open-file object as they were at the call.
C25_ExecvFrame ==
    last.op = "execv" =>
        /\ last.aux.pid_same
        /\ last.aux.slot_same
        /\ last.aux.files_same

\* A forked child with its inherited descriptors has entered a new program.
C25_Witness ==
    /\ last.op = "execv"
    /\ last.err = "OK"
    /\ procs[last.who].parent_pid > 0
    /\ \E fd \in DOMAIN procs[last.who].fileTable :
           procs[last.who].fileTable[fd] # NULL
    /\ last.aux.files_same

\* ---- sys_fork and sys_waitpid as exec.c has them
\* The revision of the two handlers in exec.c unwinds a failed fork and reaps
\* a child by calling proc_remove itself.  What happens to one process c
\* along such a path is kept with the kernel: how often proc_remove was
\* called for a pid within the table, whether a call found the slot empty,
\* how often the cv and the lock of c were destroyed.

Path(k) == [k |-> k, removes |-> 0, on_empty |-> FALSE, destroys |-> 0]

\* proc_remove(pid) on the path of c.
path_remove(t, pid, c) ==
    IF pid <= 0 \/ pid > PROC_MAX THEN t
    ELSE [k |-> proc_remove(t.k, pid),
          removes |-> t.removes + 1,
          on_empty |-> t.on_empty \/ t.k.pt.proc[pid] = NULL,
          destroys |-> t.destroys + (IF t.k.pt.proc[pid] = c THEN 1 ELSE 0)]

\* proc_destroy(c), which begins with proc_remove(c->p_pid).
path_destroy(t, c) ==
    [path_remove(t, t.k.procs[c].p_pid, c) EXCEPT !.k = proc_destroy(t.k, c)]

\* The clean-up loop of sys_fork over the child's file table, slot i upward:
\* count-- under the object's lock, the slot emptied.
RECURSIVE fork_cleanup(_, _, _)
fork_cleanup(k, c, i) ==
    IF i >= OPEN_MAX THEN k
    ELSE LET f == k.procs[c].fileTable[i] IN
         IF f = NULL THEN fork_cleanup(k, c, i + 1)
         ELSE fork_cleanup([k EXCEPT !.ofs[f].count = @ - 1,
                                     !.procs[c].fileTable[i] = NULL], c, i + 1)

\* The unwinding of a failed sys_fork: proc_remove(child->p_pid), then
\* proc_destroy(child); after the first call brought the kernel down
\* nothing else runs.
fork_unwind(k, c) ==
    LET t == path_remove(Path(k), k.procs[c].p_pid, c) IN
    IF t.k.panicked THEN t ELSE path_destroy(t, c)

\* The reaping of sys_waitpid: proc_remove(pid), then cv_destroy and
\* lock_destroy of the child's own pointers, which proc_remove has not set
\* to NULL, then kfree(child).  Destroying what is destroyed already is a
\* double free: it goes unnoticed (works) or brings the kernel down.
waitpid_reap(k, pid, c, works) ==
    LET t == path_remove(Path(k), pid, c) IN
    IF t.k.panicked THEN t
    ELSE [k |-> IF t.k.procs[c].sync \/ works
                THEN [t.k EXCEPT !.procs[c].sync = FALSE, !.procs[c].st = "free"]
                ELSE [t.k EXCEPT !.panicked = TRUE],
          removes |-> t.removes,
          on_empty |-> t.on_empty,
          destroys |-> t.destroys + 1]

\* What such a path reports.
PathAux(t) ==
    [removes |-> t.removes, on_empty |-> t.on_empty, destroys |-> t.destroys]

PathErr(t, err) == IF t.k.panicked THEN "FAULT" ELSE err

\* sys_fork of exec.c once the child is in the table (proc_create_fork is not
\* among the sources; it is taken to end as proc_create does, with
\* p_pid = pid): parent_pid, as_copy, the cwd, the file table, the trapframe
\* copy and thread_fork.  `out` is the first step that fails.
ForkUnwind(b) ==
    /\ CanRun(b, "fork_init")
    /\ UNCHANGED calls
    /\ \E out \in {"as_copy", "trapframe", "thread_fork", "ok"} :
         /\ Inject(out # "ok")
         /\ LET c == thr[b].child
                k0 == [Kernel EXCEPT !.procs[c].p_pid = thr[b].pid]
                k2 == [k0 EXCEPT !.procs[c].parent_pid = k0.procs[b].p_pid,
                                 !.procs[c].forked_by = b]
                asfail == out = "as_copy" \/ FreeAs(k2) = {}
                as == LowestOf(FreeAs(k2))
                k3 == [k2 EXCEPT !.aspaces[as] = "live", !.procs[c].p_addrspace = as]
                k4 == share_cwd(k3, b, c)
                k5 == fork_filetable(k4, b, c, 0)
                k6 == [k5 EXCEPT !.procs[c].p_numthreads = @ + 1]
                t == IF asfail THEN fork_unwind(k2, c)
                     ELSE fork_unwind(fork_cleanup(k5, c, 0), c)
            IN  IF asfail \/ out \in {"trapframe", "thread_fork"}
                THEN /\ Commit(t.k)
                     /\ thr' = [thr EXCEPT ![b] = IF t.k.panicked THEN @ ELSE InUser]
                     /\ last' = Result(b, "fork", PathErr(t, "ENOMEM"), 0, PathAux(t))
                ELSE /\ Commit(k6)
                     /\ thr' = [thr EXCEPT ![b] = InUser, ![c] = InUser]
                     /\ last' = Result(b, "fork", "OK", k6.procs[c].p_pid, <<>>)

\* sys_waitpid of exec.c after the loops: copyout of the exit code, then the
\* reaping.
WaitReap(b) ==
    /\ CanRun(b, "wait_copy")
    /\ procs[thr[b].child].p_numthreads = 0
    /\ UNCHANGED <<calls, faults>>
    /\ \E works \in BOOLEAN :
         LET c == thr[b].child
             t == waitpid_reap(Kernel, thr[b].pid, c, works)
         IN  IF thr[b].arg = "bad"
             THEN /\ Return(b, Result(b, "waitpid", "EFAULT", 0, <<>>))
                  /\ UNCHANGED <<procs, processTable, ofs, aspaces, cwdref, panicked>>
             ELSE /\ Commit(t.k)
                  /\ thr' = [thr EXCEPT ![b] = IF t.k.panicked THEN @ ELSE InUser]
                  /\ last' = Result(b, "waitpid", PathErr(t, "OK"), thr[b].pid,
                                    PathAux(t))

\* Processes that fork, exit and wait with these two handlers, in runs of at
\* most MaxWaitCalls system calls.
NextReap ==
    \E b \in ProcBlk :
        \/ calls < MaxWaitCalls /\ ForkBegin(b)
        \/ ForkAdd(b)
        \/ ForkUnwind(b)
        \/ calls < MaxWaitCalls /\ ExitRemthread(b)
        \/ ExitSignal(b)
        \/ calls < MaxWaitCalls /\ WaitCall(b)
        \/ WaitLock(b)
        \/ WaitReap(b)

SpecReap == Init /\ [][NextReap]_vars

\* ---- copy_args_to_stack on every stack top
\* The stack tops that are multiples of 8 and the argument vectors that fit
\* below them; copy_args_to_stack called once on each.

StackTops == {t \in 0..USERSTACK : t % 8 = 0}

StackInputs ==
    {in \in StackTops \X ArgVectors : ArgFootprint(in[2]) + 7 <= in[1]}

InitStack ==
    /\ \E in \in StackInputs :
          thr = [b \in ProcBlk |->
                   IF b = 1 THEN [InUser EXCEPT !.off = in[1], !.arg = in[2]]
                   ELSE Idle]
    /\ procs = [b \in ProcBlk |->
                  IF b = 1
                  THEN [FreshProc EXCEPT !.st = "used", !.p_pid = 1,
                            !.parent_pid = -1, !.p_numthreads = 1,
                            !.p_addrspace = 1, !.p_cwd = TRUE, !.sync = TRUE]
                  ELSE FreshProc]
    /\ processTable = [proc |-> [p \in Pids |-> IF p = 1 THEN 1 ELSE NULL],
                       last_pid |-> 1]
    /\ ofs = [f \in OfBlk |-> FreedOf]
    /\ aspaces = [a \in AsBlk |-> IF a = 1 THEN "live" ELSE "free"]
    /\ cwdref = 2
    /\ panicked = FALSE
    /\ last = NoRes
    /\ calls = 0
    /\ faults = 0

\* copy_args_to_stack called on the vector and the stack top of thread 1:
\* the stack pointer it leaves, and the memory it wrote.
CopyArgsToStack ==
    /\ calls = 0
    /\ calls' = 1
    /\ LET ka == copy_arguments(thr[1].arg)
           st == copy_args_to_stack(ka.kernel_args, ka.argc, thr[1].off)
       IN  last' = Result(1, "copy_args_to_stack", "OK", st.stackptr,
                          [top |-> thr[1].off, args |-> thr[1].arg,
                           mem |-> st.mem])
    /\ UNCHANGED <<procs, processTable, ofs, aspaces, cwdref, thr, panicked,
                   faults>>

NextStack == CopyArgsToStack

SpecStack == InitStack /\ [][NextStack]_vars

\* ---- the locks a handler takes
\* Every handler as the sequence of what it does to locks and of the
\* operations that may sleep, in the order of its code.  A lock is named by
\* its kind and, for the lock of an open-file object, the descriptor it was
\* reached through.

OfLock(fd) == <<"of", fd>>
ProcLock == <<"p_locklock", 0>>
TableSpin == <<"processTable.lock", 0>>
NoLock == <<"none", 0>>

Acquire(l) == <<"lock_acquire", l>>
Release(l) == <<"lock_release", l>>
SpinAcquire == <<"spinlock_acquire", TableSpin>>
SpinRelease == <<"spinlock_release", TableSpin>>
CvWait(l) == <<"cv_wait", l>>
Vfs == <<"vfs", NoLock>>
Copy == <<"copy", NoLock>>

\* The operations that may put the thread to sleep.
Blocking == {"lock_acquire", "cv_wait", "vfs", "copy"}

\* find_valid_pid, proc_add, proc_search: the table read or written under
\* the spinlock.
table_locks == <<SpinAcquire, SpinRelease>>

\* proc_remove: cv_destroy, lock_destroy and the store under the spinlock.
proc_remove_locks == <<SpinAcquire, SpinRelease>>

\* One reference dropped through descriptor fd: the object's lock, vfs_close
\* under it when the reference was the last one.
decref_locks(fd, lastref) ==
    <<Acquire(OfLock(fd))>> \o (IF lastref THEN <<Vfs>> ELSE <<>>)
        \o <<Release(OfLock(fd))>>

\* The file-table sweep of proc_destroy over descriptors fd .. n - 1.
RECURSIVE sweep_locks(_, _, _)
sweep_locks(fd, n, lastref) ==
    IF fd >= n THEN <<>>
    ELSE decref_locks(fd, lastref) \o sweep_locks(fd + 1, n, lastref)

\* proc_destroy of a process with n descriptors installed.
proc_destroy_locks(n, lastref) ==
    proc_remove_locks \o sweep_locks(0, n, lastref)

\* The file-table loop of sys_fork over descriptors fd .. n - 1.
RECURSIVE fork_loop_locks(_, _)
fork_loop_locks(fd, n) ==
    IF fd >= n THEN <<>>
    ELSE <<Acquire(OfLock(fd)), Release(OfLock(fd))>> \o fork_loop_locks(fd + 1, n)

\* sys_fork with n descriptors in the parent: proc_create (find_valid_pid,
\* proc_add), the three consoles, as_copy, the file-table loop, and
\* proc_destroy when the trapframe or thread_fork fails.
fork_locks(n, fails) ==
    table_locks \o table_locks \o <<Vfs, Vfs, Vfs>> \o fork_loop_locks(0, n)
        \o (IF fails THEN proc_destroy_locks(n, FALSE) ELSE <<>>)

RECURSIVE cv_waits(_)
cv_waits(sleeps) ==
    IF sleeps = 0 THEN <<>> ELSE <<CvWait(ProcLock)>> \o cv_waits(sleeps - 1)

\* sys_waitpid past its checks: proc_search, the loop under p_locklock, the
\* copyout, proc_destroy of a child with n descriptors.
waitpid_locks(sleeps, status, n, lastref) ==
    table_locks \o <<Acquire(ProcLock)>> \o cv_waits(sleeps)
        \o <<Release(ProcLock)>>
        \o (IF status = "null" THEN <<>> ELSE <<Copy>>)
        \o (IF status = "bad" THEN <<>> ELSE proc_destroy_locks(n, lastref))

\* sys__exit: the exit code stored and cv_signal under p_locklock.
exit_locks == <<Acquire(ProcLock), Release(ProcLock)>>

\* sys_write: copyin, then VOP_WRITE under the object's lock.
write_locks(fd) == <<Copy, Acquire(OfLock(fd)), Vfs, Release(OfLock(fd))>>

\* sys_read: VOP_READ and copyout under the object's lock.
read_locks(fd) == <<Acquire(OfLock(fd)), Vfs, Copy, Release(OfLock(fd))>>

\* sys_close.
close_locks(fd, lastref) == decref_locks(fd, lastref)

\* sys_lseek: VOP_STAT under the object's lock for SEEK_END.
lseek_locks(fd, whence) ==
    <<Acquire(OfLock(fd))>> \o (IF whence = "SEEK_END" THEN <<Vfs>> ELSE <<>>)
        \o <<Release(OfLock(fd))>>

\* sys_dup2 taking the lock of oldfd's object before it lets go of newfd's.
dup2_locks_nested(oldfd, newfd, had_newfd, lastref) ==
    (IF had_newfd THEN <<Acquire(OfLock(newfd))>> ELSE <<>>)
        \o <<Acquire(OfLock(oldfd)), Release(OfLock(oldfd))>>
        \o (IF had_newfd THEN <<Release(OfLock(newfd))>> ELSE <<>>)

\* sys_dup2 past its checks with oldfd # newfd: newfd's object released
\* under its lock if there is one, then oldfd's object counted under its own.
dup2_locks(oldfd, newfd, had_newfd, lastref) ==
    (IF had_newfd THEN decref_locks(newfd, lastref) ELSE <<>>)
        \o <<Acquire(OfLock(oldfd)), Release(OfLock(oldfd))>>

\* The handlers with their paths.
HandlerLocks ==
    {<<"fork", fork_locks(n, fails)>> : n \in 0..MaxLockFds, fails \in BOOLEAN}
    \cup {<<"waitpid", waitpid_locks(sl, st, n, lr)>> :
             sl \in 0..1, st \in StatusPtrs, n \in 0..MaxLockFds, lr \in BOOLEAN}
    \cup {<<"_exit", exit_locks>>}
    \cup {<<"write", write_locks(fd)>> : fd \in 0..MaxLockFds}
    \cup {<<"read", read_locks(fd)>> : fd \in 0..MaxLockFds}
    \cup {<<"close", close_locks(fd, lr)>> : fd \in 0..MaxLockFds, lr \in BOOLEAN}
    \cup {<<"lseek", lseek_locks(fd, w)>> : fd \in 0..MaxLockFds, w \in Whences}
    \cup {<<"dup2", dup2_locks(d[1], d[2], h, lr)>> :
             d \in {e \in (0..MaxLockFds) \X (0..MaxLockFds) : e[1] # e[2]},
             h \in BOOLEAN, lr \in BOOLEAN}

\* What the thread holds after the event, and whether it has slept with the
\* table spinlock held.
HeldAfter(held, ev) ==
    CASE ev[1] \in {"lock_acquire", "spinlock_acquire"} -> held \cup {ev[2]}
      [] ev[1] \in {"lock_release", "spinlock_release"} -> held \ {ev[2]}
      [] OTHER -> held

\* A handler is entered by the thread of b.
LockEnter(b) ==
    /\ CanRun(b, "user")
    /\ IF last.op = "none" THEN TRUE ELSE last.aux.todo = <<>>
    /\ \E h \in HandlerLocks :
         last' = Result(b, "locks", "OK", 0,
                        [handler |-> h[1], todo |-> h[2], held |-> {},
                         slept_in_spin |-> FALSE])
    /\ UNCHANGED <<procs, processTable, ofs, aspaces, cwdref, thr, panicked,
                   calls, faults>>

\* The handler's next event.
LockStep(b) ==
    /\ last.op = "locks" /\ last.who = b
    /\ last.aux.todo # <<>>
    /\ LET ev == Head(last.aux.todo) IN
         last' = [last EXCEPT
                    !.aux.todo = Tail(@),
                    !.aux.held = HeldAfter(@, ev),
                    !.aux.slept_in_spin =
                        @ \/ (ev[1] \in Blocking /\ TableSpin \in last.aux.held)]
    /\ UNCHANGED <<procs, processTable, ofs, aspaces, cwdref, thr, panicked,
                   calls, faults>>

NextLock == \E b \in ProcBlk : LockEnter(b) \/ LockStep(b)

SpecLock == Init /\ [][NextLock]_vars

\* ---- find_valid_pid on every table
\* The tables find_valid_pid can be given: every slot of 1..PROC_MAX empty or
\* occupied, last_pid anywhere in 0..PROC_MAX.  One call of it on each.

Tables == [proc : [Pids -> {NULL, 1}], last_pid : 0..PROC_MAX]

InitPid ==
    /\ processTable \in Tables
    /\ procs = [b \in ProcBlk |->
                  IF b = 1
                  THEN [FreshProc EXCEPT !.st = "used", !.p_pid = 1,
                            !.parent_pid = -1, !.p_numthreads = 1,
                            !.p_addrspace = 1, !.p_cwd = TRUE, !.sync = TRUE]
                  ELSE FreshProc]
    /\ ofs = [f \in OfBlk |-> FreedOf]
    /\ aspaces = [a \in AsBlk |-> IF a = 1 THEN "live" ELSE "free"]
    /\ cwdref = 2
    /\ thr = [b \in ProcBlk |-> IF b = 1 THEN InUser ELSE Idle]
    /\ panicked = FALSE
    /\ last = NoRes
    /\ calls = 0
    /\ faults = 0

\* find_valid_pid called once: what it returns (-2: it does not return), the
\* table it was given and last_pid as it leaves it.
FindValidPid ==
    /\ calls = 0
    /\ calls' = 1
    /\ LET pid == find_valid_pid(processTable) IN
         /\ processTable' = IF pid > 0
                             THEN [processTable EXCEPT !.last_pid = pid]
                             ELSE processTable
         /\ last' = Result(1, "find_valid_pid", "OK", pid,
                           [before |-> processTable,
                            last_pid |-> processTable'.last_pid])
    /\ UNCHANGED <<procs, ofs, aspaces, cwdref, thr, panicked, faults>>

NextPid == FindValidPid

SpecPid == InitPid /\ [][NextPid]_vars

\* C26: every non-empty slot i of the process table holds a process whose
\* p_pid is i, at every moment, the one between proc_add filling the slot and
\* proc_create storing p_pid included.
C26_SlotHoldsItsPid ==
    \A i \in 1..PROC_MAX :
        processTable.proc[i] # NULL => procs[processTable.proc[i]].p_pid = i

\* C27: on every table and every last_pid of 0..PROC_MAX, find_valid_pid
\* returns the first empty slot of the circular scan of 1..PROC_MAX that
\* starts after last_pid and covers a full cycle, leaving last_pid at that
\* slot, and returns -1 exactly when every slot is occupied.
C27_FindValidPid ==
    last.op = "find_valid_pid" =>
        LET pt == last.aux.before
            Dist(i) == (i - pt.last_pid - 1 + 2 * PROC_MAX) % PROC_MAX
            Empty == {i \in 1..PROC_MAX : pt.proc[i] = NULL}
        IN  /\ (last.val = -1) = (Empty = {})
            /\ Empty # {} =>
                  /\ last.val \in Empty
                  /\ \A j \in Empty : Dist(last.val) <= Dist(j)
                  /\ last.aux.last_pid = last.val

\* C28: a fork that fails after the child's file table was filled (the
\* trapframe allocation or thread_fork fails) returns with every open-file
\* object that existed before at the count it had, the parent's file table
\* unchanged, and the child's slot of the process table empty.
C28_ForkRollsBack ==
    (last.op = "fork" /\ last.err = "ENOMEM" /\ last.aux.populated) =>
        /\ last.aux.counts_same
        /\ last.aux.parent_same
        /\ last.aux.slot_empty

\* Such a fork has failed in a process that holds open files.
C28_Witness ==
    /\ last.op = "fork"
    /\ last.err = "ENOMEM"
    /\ last.aux.populated
    /\ last.aux.counts_same
    /\ \E fd \in Fds : procs[last.who].fileTable[fd] # NULL

\* C29: an open-file object is freed when its count reaches 0 and not while
\* a file-table slot points to it, and nothing locks, reads, writes or counts
\* a freed one: a live object has a count above 0, every slot of a process
\* points to a live object, and so does every read or write in progress.
C29_FreedAtZeroOnly ==
    /\ \A f \in OfBlk : ofs[f].st = "live" => ofs[f].count > 0
    /\ \A b \in ProcBlk : \A fd \in Fds :
          (procs[b].st = "used" /\ procs[b].fileTable[fd] # NULL) =>
              ofs[procs[b].fileTable[fd]].st = "live"
    /\ \A b \in ProcBlk :
          thr[b].pc \in {"read_lock", "write_lock"} => ofs[thr[b].of].st = "live"

\* A close has freed an object while other objects stay live.
C29_Witness ==
    /\ last.op = "close"
    /\ last.err = "OK"
    /\ \E f \in OfBlk, g \in OfBlk :
          /\ f < g
          /\ ofs[f].st = "free"
          /\ ofs[g].st = "live"
          /\ \E b \in ProcBlk, fd \in Fds :
                procs[b].st = "used" /\ procs[b].fileTable[fd] = g

\* C30: a read that succeeds on an object shared with another reader starts
\* at the offset the object has when the read holds its lock and leaves the
\* offset at that start plus the bytes it returns, so that two concurrent
\* reads take disjoint adjoining ranges and the offset ends at the initial
\* one plus the sum of their counts.
C30_ReadStartsAtLockedOffset ==
    (last.op = "read" /\ last.err = "OK" /\ last.aux.io) =>
        /\ last.aux.start = last.aux.before
        /\ last.aux.after = last.aux.before + last.val

\* C31: a process that proc_destroy is about to run on (the child of a waitpid
\* that has read the exit code and will pass its copyout) has no thread
\* attached and has its exited flag set.
C31_DestroyOnlyExited ==
    /\ \A b \in ProcBlk :
          (thr[b].pc = "wait_copy" /\ thr[b].arg # "bad") =>
              /\ procs[thr[b].child].p_numthreads = 0
              /\ procs[thr[b].child].p_exited
    /\ (last.op = "fork" /\ last.err = "ENOMEM") => last.aux.unstarted

\* A parent that slept in waitpid has been woken and is about to destroy
\* its child.
C31_Witness ==
    \E b \in ProcBlk :
        /\ thr[b].pc = "wait_copy" /\ thr[b].arg # "bad"
        /\ thr[b].slept
        /\ procs[thr[b].child].parent_pid = procs[b].p_pid

\* C32: no thread holds p_locklock together with the lock of an open-file
\* object, none holds the locks of two open-file objects at once, and none
\* does what may sleep (lock_acquire, cv_wait, a VFS call, copyin or copyout)
\* while it holds the spinlock of the process table.
C32_LockDiscipline ==
    last.op = "locks" =>
        LET OfHeld == {l \in last.aux.held : l[1] = "of"} IN
        /\ ~(ProcLock \in last.aux.held /\ OfHeld # {})
        /\ Cardinality(OfHeld) <= 1
        /\ ~last.aux.slept_in_spin

\* A waitpid, past the loop under p_locklock, holds the lock of an object of
\* the child it destroys.
C32_Witness ==
    /\ last.op = "locks"
    /\ last.aux.handler = "waitpid"
    /\ \E l \in last.aux.held : l[1] = "of"

\* C33: from a stack top that is a multiple of 8, copy_args_to_stack puts
\* every string at a multiple of 4, leaves the stack pointer at a multiple
\* of 8 where the argv array starts, and the array ends below every string,
\* no two of which overlap, all below the stack top.
C33_StackAligned ==
    last.op = "copy_args_to_stack" =>
        LET n == Len(last.aux.args)
            sp == last.val
            Ptr(i) == WordAt(last.aux.mem, sp + 4 * (i - 1))
            End(i) == Ptr(i) + Len(last.aux.args[i]) + 1
        IN  /\ sp % 8 = 0
            /\ sp >= 0
            /\ WordAt(last.aux.mem, sp + 4 * n) = 0
            /\ \A i \in 1..n :
                  /\ Ptr(i) % 4 = 0
                  /\ sp + 4 * (n + 1) <= Ptr(i)
                  /\ End(i) <= last.aux.top
                  /\ StringAt(last.aux.mem, Ptr(i)) = last.aux.args[i]
                  /\ \A j \in 1..n : i < j => End(i) <= Ptr(j)

\* Two strings of different lengths were copied below a stack top other
\* than USERSTACK.
C33_Witness ==
    /\ last.op = "copy_args_to_stack"
    /\ last.aux.top < USERSTACK
    /\ Len(last.aux.args) = 2
    /\ Len(last.aux.args[1]) # Len(last.aux.args[2])
    /\ Len(last.aux.args[1]) > 0

\* C34: every process that holds a cwd accounts for exactly one reference to
\* the directory vnode: with no system call in progress the vnode's count is
\* the boot's own reference plus one for each process object with a p_cwd,
\* so a fork raises it by one and reaping the child takes that one back.
C34_OneCwdReference ==
    Quiescent =>
        cwdref = 1 + Cardinality({b \in ProcBlk :
                                    procs[b].st = "used" /\ procs[b].p_cwd})

\* C35: on the paths that reap a child or unwind a failed fork, proc_remove
\* is called at most once for the process and never on an empty slot, and
\* the cv and the lock of the process are destroyed exactly once.
C35_RemovedOnce ==
    ((last.op = "waitpid" /\ last.err \in {"OK", "FAULT"})
        \/ (last.op = "fork" /\ last.err \in {"ENOMEM", "FAULT"})) =>
        /\ last.aux.removes <= 1
        /\ ~last.aux.on_empty
        /\ last.aux.destroys = 1

\* C36: when the creation of a process fails (no free pid, the cv or the
\* lock not created in proc_add, a console not opened), no slot of the
\* process table points to the object that was to be the process.
C36_FailedCreationLeavesNoSlot ==
    (last.op = "fork" /\ last.err = "ENPROC") => last.aux.slot_clear

\* ---------------------------------------------------------------------------
\* Orphans.  The kernel after pid 1 forked pid 2 and pid 4 and pid 2 forked
\* pid 3: every slot is occupied, each fork left three console objects of
\* proc_create_runprogram behind and took the cwd twice, and last_pid is 4.
MaxOrphanCalls == 4

InitOrphan ==
    /\ procs = [b \in ProcBlk |->
                  IF b <= PROC_MAX
                  THEN [FreshProc EXCEPT !.st = "used", !.p_pid = b,
                            !.parent_pid = IF b = 1 THEN -1 ELSE IF b = 3 THEN 2 ELSE 1,
                            !.forked_by = IF b = 1 THEN NULL ELSE IF b = 3 THEN 2 ELSE 1,
                            !.p_numthreads = 1,
                            !.p_addrspace = b, !.p_cwd = TRUE,
                            !.fileTable = [i \in Fds |-> IF i < 3 THEN i + 1 ELSE NULL],
                            !.sync = TRUE]
                  ELSE FreshProc]
    /\ processTable = [proc |-> [p \in Pids |-> p], last_pid |-> PROC_MAX]
    /\ ofs = [f \in OfBlk |->
                IF f <= 3
                THEN [st |-> "live", count |-> PROC_MAX, offset |-> 0,
                      mode |-> ConsoleMode(f - 1)]
                ELSE IF f <= 3 * PROC_MAX
                THEN [st |-> "live", count |-> 1, offset |-> 0,
                      mode |-> ConsoleMode((f - 1) % 3)]
                ELSE FreedOf]
    /\ aspaces = [a \in AsBlk |-> IF a <= PROC_MAX THEN "live" ELSE "free"]
    /\ cwdref = 2 * PROC_MAX
    /\ thr = [b \in ProcBlk |-> IF b <= PROC_MAX THEN InUser ELSE Idle]
    /\ panicked = FALSE
    /\ last = NoRes
    /\ calls = 0
    /\ faults = 0

NextOrphan ==
    \E b \in ProcBlk :
        \/ calls < MaxOrphanCalls /\ ForkBegin(b)
        \/ ForkAdd(b)
        \/ ForkRest(b)
        \/ calls < MaxOrphanCalls /\ ExitRemthread(b)
        \/ ExitSignal(b)
        \/ calls < MaxOrphanCalls /\ WaitCall(b)
        \/ WaitLock(b)
        \/ WaitFinish(b)

SpecOrphan == InitOrphan /\ [][NextOrphan]_vars

\* C37: a thread that passed sys_waitpid's parent check (it is about to lock,
\* sleep on, or reap its target) belongs to the process whose sys_fork made
\* the target its child.
C37_OnlyForkerWaits ==
    \A b \in ProcBlk :
        thr[b].pc \in {"wait_lock", "wait_cv", "wait_copy"} =>
            procs[thr[b].child].forked_by = b

\* The table as process_table_init leaves it: slots 1..PROC_MAX empty and
\* last_pid 0.
BootTable == [proc |-> [p \in Pids |-> NULL], last_pid |-> 0]

\* C38: in every state, find_valid_pid called on the process table ends: its
\* loop meets an empty slot or comes back to last_pid within PROC_MAX slots
\* (each exit releases the table spinlock), no sys_fork is stuck in it, and
\* on the table process_table_init built it returns pid 1.
C38_FindValidPidEnds ==
    /\ find_valid_pid(BootTable) = 1
    /\ find_valid_pid(processTable) # -2
    /\ \A b \in ProcBlk : thr[b].pc # "hang"

\* A fork came back with ENPROC from a table whose slots 1..PROC_MAX are all
\* occupied: find_valid_pid returned -1.
C38_Witness ==
    /\ last.op = "fork"
    /\ last.err = "ENPROC"
    /\ \A p \in Pids : processTable.proc[p] # NULL
    /\ find_valid_pid(processTable) = -1
====
